---- MODULE Spec2Model ----
(***************************************************************************)
(* Queue-driven orchestration of ageless-h/3k-ani-mkv-av1.                 *)
(*                                                                         *)
(*  - SimpleVideoMonitor   (tools/simple_monitor.py): per-video queue and  *)
(*    processed set, persisted in log/video_queue.json and                 *)
(*    log/monitor_state.json.                                              *)
(*  - SimpleVideoWorker    (tools/simple_processor.py): the pipeline       *)
(*    download -> convert -> upload -> mark -> cleanup and run_worker.     *)
(*  - SimpleVideoSystem    (simple_run.py): the discovery loop and the     *)
(*    processing loop over system.monitor, the pipeline over               *)
(*    worker.monitor.                                                      *)
(*  - ModelScopeMonitor / QueueProcessor (tools/modelscope_monitor.py,     *)
(*    tools/queue_processor.py): the folder queue in                       *)
(*    log/processing_queue.json.                                           *)
(*                                                                         *)
(* File writes are modelled as succeeding: the except branches of the      *)
(* save_* methods only log.  Sizes are carried in MiB (st_size / 2^20) so  *)
(* that 5 GiB stays inside TLC's integers.  The informational float        *)
(* added_time of a video queue entry (time.time(), never read) is left     *)
(* out of the entry.                                                       *)
(***************************************************************************)
EXTENDS Integers, Sequences, FiniteSets, TLC

(***************************************************************************)
(* Bounds of the model.                                                    *)
(***************************************************************************)
MaxQueue == 4
MaxTicks == 3
MaxFreeGB == 4

(***************************************************************************)
(* The repository's videos: identity is the repository-relative path.      *)
(***************************************************************************)
Paths == {"small/v10m.mp4", "small/v20m.mkv", "big/v5g.mp4"}

SizeOf(p) ==
  CASE p = "small/v10m.mp4" -> 10
    [] p = "small/v20m.mkv" -> 20
    [] OTHER                -> 5120

Monitors == {"system", "worker"}

None == [path |-> "", size |-> 0, status |-> "None", priority |-> 0]

VARIABLES
  repo,              \* videos the input repository currently lists
  processed_videos,  \* [Monitors -> SUBSET Paths]   self.processed_videos
  video_queue,       \* [Monitors -> Seq(entry)]     self.video_queue
  state_file,        \* log/monitor_state.json
  queue_file,        \* log/video_queue.json
  last,              \* the last call made on the monitor and what it returned
  pc,                \* where the processing loop stands
  next_video,        \* the entry the processing loop took (None between items)
  local_input_path,  \* process_single_video: the download left a working copy
  local_output_path, \* process_single_video: the conversion left an output
  download_result,   \* how _download_single_video ended in this run
  upload_result,     \* what _upload_converted_video returned in this run
  calls,             \* the stages process_single_video has invoked in this run
  success,           \* the value process_single_video returns
  last_run,          \* the last pipeline run whose outcome the loop has handled
  finished,          \* identities whose pipeline run has been handled
  temp_files,        \* files in the worker's temp_dir made for the item in flight
  catalog,           \* folders that are uploaded to the repository in this run
  repo_version,      \* per folder: 0 not in the repository, else its content version
  now,               \* time.time()
  stamp,             \* datetime.now() of the next queue entry (strictly increasing)
  last_state,        \* ModelScopeMonitor.last_state
  processing_queue,  \* ModelScopeMonitor.processing_queue
  monitor_state_file,      \* the state file ModelScopeMonitor.save_state writes
  processing_queue_file,   \* log/processing_queue.json
  mpc,               \* where ModelScopeMonitor.monitor_once stands
  force_all,         \* monitor_once: its argument
  current_time,      \* detect_completed_folders: current_time
  current_structure, \* monitor_once: current_structure (content version per folder)
  completed_folders, \* monitor_once: the completed folders still to add
  found,             \* monitor_once: len(completed_folders), its return value
  qpc,               \* where QueueProcessor.run_processor stands
  pending_items,     \* run_processor: pending_items
  item_to_process,   \* run_processor: item_to_process["folder"]
  new_status,        \* mark_item_status: status
  served,            \* the folders process_folder was entered with, from the first
                     \* take on that found every folder of the catalog pending
  disk_free,         \* shutil.disk_usage(path).free, in MiB
  disk_call,         \* the last call of check_free_space / download_video_to_local
  rt_memory,         \* what the saving instance holds: queue, processed set, progress
  rt_files,          \* the JSON text of the queue, state and progress files
  rt_loaded,         \* what a new instance has loaded from them
  crashed,           \* the entry that was in flight when the process was killed
  started,           \* what SimpleVideoMonitor.__init__ found in the two files
  ap_pc,             \* where AnimationProcessor stands: __init__, run, its finally
  ap_run,            \* which run of the program this is
  ap_index,          \* run: position of the loop over series_dict
  progress,          \* AnimationProcessor.progress
  progress_file,     \* TEMP_DIR/progress.json
  ap_completed,      \* per run: the series it appended to completed_series
  ap_worked,         \* per run: the series process_series did not skip
  running,           \* SimpleVideoSystem.running
  rs,                \* run_system: its mode and where it stands
  mthread,           \* the thread of monitor_worker (start_monitor)
  wthread,           \* the thread of worker_runner (start_worker)
  marking,           \* mark_video_processed on system.monitor, between its statements
  ps                 \* a call of AnimationProcessor.process_series

monVars == <<processed_videos, video_queue, state_file, queue_file>>
wrkVars == <<pc, next_video, local_input_path, local_output_path, download_result,
             upload_result, calls, success, last_run, finished, temp_files>>
fldVars == <<catalog, repo_version, now, stamp, last_state, processing_queue,
             monitor_state_file, processing_queue_file, mpc, force_all, current_time,
             current_structure, completed_folders, found, qpc, pending_items,
             item_to_process, new_status, served>>
simpleVars == <<repo, monVars, last, wrkVars>>
diskVars == <<disk_free, disk_call>>
rtVars == <<rt_memory, rt_files, rt_loaded>>
runVars == <<crashed, started>>
apVars == <<ap_pc, ap_run, ap_index, progress, progress_file, ap_completed, ap_worked>>
schVars == <<running, rs, mthread, wthread>>
raceVars == <<marking>>
batchVars == <<ps>>
moreVars == <<raceVars, batchVars>>
extVars == <<schVars, moreVars>>
auxVars == <<diskVars, rtVars, runVars, apVars, extVars>>
vars == <<repo, processed_videos, video_queue, state_file, queue_file, last,
          pc, next_video, local_input_path, local_output_path, download_result,
          upload_result, calls, success, last_run, finished, temp_files,
          catalog, repo_version, now, stamp, last_state, processing_queue,
          monitor_state_file, processing_queue_file, mpc, force_all, current_time,
          current_structure, completed_folders, found, qpc, pending_items,
          item_to_process, new_status, served, auxVars>>

(***************************************************************************)
(* Helpers.                                                                *)
(***************************************************************************)
Perms(S) ==
  {s \in [1..Cardinality(S) -> S] : \A i, j \in 1..Cardinality(S) : s[i] = s[j] => i = j}

PathsOf(q) == {q[i].path : i \in 1..Len(q)}

Occurrences(q, p) == Cardinality({i \in 1..Len(q) : q[i].path = p})

(***************************************************************************)
(* SimpleVideoMonitor.                                                     *)
(***************************************************************************)
\* one entry of the list get_all_videos_from_repo returns
VideoInfo(p) == [path |-> p, size |-> SizeOf(p), status |-> "real"]

\* the cache walk of get_all_videos_from_repo: every listed video once, in
\* the order os.walk yields them
repo_listing == {[i \in 1..Cardinality(repo) |-> VideoInfo(s[i])] : s \in Perms(repo)}

\* _get_expected_videos: the hard-coded list (size 100000000 bytes, 95 MiB)
ExpectedSize == 95
_get_expected_videos ==
  [i \in 1..5 |->
     [path |-> <<"180s/0001.mp4", "yamishibai1/0001.mp4", "yamishibai1/0002.mp4",
                 "deathnote_sp/0001.rmvb", "wakaba_girl/0001.mp4">>[i],
      size |-> ExpectedSize, status |-> "expected"]]

\* _get_videos_from_filelist: the video lines of filelist.txt as
\* series/filename entries when the file exists (here one line), else
\* _get_expected_videos
_get_videos_from_filelist(filelist_exists) ==
  IF filelist_exists
  THEN <<[path |-> "yamishibai1/0009.mp4", size |-> ExpectedSize,
          status |-> "from_filelist"]>>
  ELSE _get_expected_videos

ListingOutcomes == {"ok", "nonzero", "exception"}

\* get_all_videos_from_repo: both CLI downloads exited non-zero ("nonzero"),
\* the download timed out or raised ("exception"), or the cache was walked
\* ("ok"); an empty walk falls back to the file list
get_all_videos_from_repo(outcome, filelist_exists) ==
  IF outcome = "nonzero" THEN {_get_expected_videos}
  ELSE IF outcome = "exception" THEN {_get_videos_from_filelist(filelist_exists)}
  ELSE IF repo = {} THEN {_get_videos_from_filelist(filelist_exists)}
  ELSE repo_listing

\* save_state / save_queue: the file is rewritten whole
save_state(m) == [exists |-> TRUE, processed_videos |-> processed_videos'[m]]
save_queue(m) == [exists |-> TRUE, queue |-> video_queue'[m], readable |-> TRUE]

add_video_to_queue_unchecked(q, P, video_info) ==
  Append(q, [path |-> video_info.path, size |-> video_info.size,
             status |-> "pending", priority |-> 1])

add_video_to_queue_ignores_processed(q, P, video_info) ==
  IF \E i \in 1..Len(q) : q[i].path = video_info.path THEN q
  ELSE Append(q, [path |-> video_info.path, size |-> video_info.size,
                  status |-> "pending", priority |-> 1])

\* add_video_to_queue on queue q and processed set P: the queue afterwards
add_video_to_queue(q, P, video_info) ==
  IF video_info.path \in P THEN q
  ELSE IF \E i \in 1..Len(q) : q[i].path = video_info.path THEN q
  ELSE Append(q, [path |-> video_info.path, size |-> video_info.size,
                  status |-> "pending", priority |-> 1])

AddVideoToQueue(m, video_info) ==
  /\ video_queue' = [video_queue EXCEPT
                       ![m] = add_video_to_queue(@, processed_videos[m], video_info)]
  /\ UNCHANGED <<processed_videos, state_file, queue_file>>

\* mark_video_processed and mark_video_failed have the same body up to logging
mark_video(m, video_path) ==
  LET kept == SelectSeq(video_queue[m], LAMBDA item : item.path # video_path)
      removed == Len(video_queue[m]) - Len(kept)
  IN /\ processed_videos' = [processed_videos EXCEPT ![m] = @ \cup {video_path}]
     /\ video_queue' = [video_queue EXCEPT ![m] = kept]
     /\ state_file' = save_state(m)
     /\ queue_file' = IF removed > 0 THEN save_queue(m) ELSE queue_file

mark_video_processed(m, video_path) == mark_video(m, video_path)

mark_video_failed_unrecorded(m, video_path) == UNCHANGED monVars

mark_video_failed(m, video_path) == mark_video(m, video_path)

\* the loop of monitor_once over current_videos
RECURSIVE monitor_scan(_, _, _, _)
monitor_scan(videos, q, P, new_count) ==
  IF videos = <<>> THEN [queue |-> q, new_count |-> new_count]
  ELSE LET video_info == Head(videos)
           is_new == ~(\E i \in 1..Len(q) : q[i].path = video_info.path)
       IN IF video_info.path \notin P /\ is_new
          THEN monitor_scan(Tail(videos), add_video_to_queue(q, P, video_info), P,
                            new_count + 1)
          ELSE monitor_scan(Tail(videos), q, P, new_count)

\* monitor_once on the listing current_videos, returning new_count
monitor_once(m, current_videos, new_count) ==
  LET r == monitor_scan(current_videos, video_queue[m], processed_videos[m], 0)
  IN /\ new_count = r.new_count
     /\ video_queue' = [video_queue EXCEPT ![m] = r.queue]
     /\ queue_file' = IF r.new_count > 0 THEN save_queue(m) ELSE queue_file
     /\ UNCHANGED <<processed_videos, state_file>>

\* the loop of initialize_from_existing over all_videos
RECURSIVE initialize_scan(_, _, _, _)
initialize_scan(videos, q, P, new_count) ==
  IF videos = <<>> THEN [queue |-> q, new_count |-> new_count]
  ELSE LET video_info == Head(videos)
       IN IF video_info.path \notin P
          THEN initialize_scan(Tail(videos), add_video_to_queue(q, P, video_info), P,
                               new_count + 1)
          ELSE initialize_scan(Tail(videos), q, P, new_count)

\* initialize_from_existing on the listing all_videos; it returns new_count > 0
initialize_from_existing(m, all_videos, new_count) ==
  LET r == initialize_scan(all_videos, video_queue[m], processed_videos[m], 0)
  IN /\ new_count = r.new_count
     /\ video_queue' = [video_queue EXCEPT ![m] = r.queue]
     /\ queue_file' = save_queue(m)
     /\ UNCHANGED <<processed_videos, state_file>>

get_next_video_unsaved(m, ret) ==
  IF video_queue[m] # <<>>
  THEN /\ ret = Head(video_queue[m])
       /\ video_queue' = [video_queue EXCEPT ![m] = Tail(@)]
       /\ UNCHANGED <<processed_videos, state_file, queue_file>>
  ELSE /\ ret = None
       /\ UNCHANGED monVars

get_next_video_recording_taken(m, ret) ==
  IF video_queue[m] # <<>>
  THEN /\ ret = Head(video_queue[m])
       /\ video_queue' = [video_queue EXCEPT ![m] = Tail(@)]
       /\ processed_videos' = [processed_videos EXCEPT ![m] = @ \cup {ret.path}]
       /\ queue_file' = save_queue(m)
       /\ state_file' = save_state(m)
  ELSE /\ ret = None
       /\ UNCHANGED monVars

\* get_next_video returning next_video (None on an empty queue)
get_next_video(m, ret) ==
  IF video_queue[m] # <<>>
  THEN /\ ret = Head(video_queue[m])
       /\ video_queue' = [video_queue EXCEPT ![m] = Tail(@)]
       /\ queue_file' = save_queue(m)
       /\ UNCHANGED <<processed_videos, state_file>>
  ELSE /\ ret = None
       /\ UNCHANGED monVars

\* load_state of __init__: a missing file leaves the default
load_state(file) == IF file.exists THEN file.processed_videos ELSE {}

load_queue_ignoring_errors(file) == IF file.exists THEN file.queue ELSE <<>>

\* load_queue of __init__: a missing file leaves the default; a file that
\* json.load cannot read ends in the except branch, self.video_queue = []
load_queue(file) ==
  IF ~file.exists THEN <<>>
  ELSE IF ~file.readable THEN <<>>
  ELSE file.queue

(***************************************************************************)
(* SimpleVideoWorker: process_single_video, one stage per step, and the    *)
(* loop that calls it.  The loop takes its entries from monitor m;         *)
(* process_single_video always marks on worker.monitor.                    *)
(***************************************************************************)
NoRun == [path |-> "", download |-> "", calls |-> <<>>, success |-> FALSE,
          recorded |-> ""]

WorkerIdle ==
  /\ pc = "loop"
  /\ next_video = None
  /\ local_input_path = FALSE
  /\ local_output_path = FALSE
  /\ download_result = ""
  /\ upload_result = ""
  /\ calls = <<>>
  /\ success = FALSE
  /\ last_run = NoRun
  /\ finished = {}
  /\ temp_files = {}

\* _download_single_video ends with the file, with returncode 0 but no file
\* found, with a non-zero returncode, or in its except branch
DownloadOutcomes == {"ok", "missing", "error", "exception"}

after_download_ignoring_failure(outcome) == "convert"

\* lines 70-73: a falsy local_input_path returns False (through finally)
after_download(outcome) == IF outcome = "ok" THEN "convert" ELSE "finally"

\* the loop calls get_next_video on monitor m; None lets it sleep and retry
WorkerDequeue(m) ==
  /\ pc = "loop"
  /\ \E nv \in {None} \cup {video_queue[m][i] : i \in 1..Len(video_queue[m])} :
       /\ get_next_video(m, nv)
       /\ IF nv # None
          THEN /\ pc' = "download"
               /\ next_video' = nv
               /\ calls' = <<>>
               /\ download_result' = ""
               /\ upload_result' = ""
               /\ local_input_path' = FALSE
               /\ local_output_path' = FALSE
               /\ success' = FALSE
               /\ temp_files' = {}
               /\ UNCHANGED <<last_run, finished>>
          ELSE UNCHANGED wrkVars

\* what _download_single_video leaves in temp_dir: input_<filename> when it
\* returns the path; when the CLI failed or timed out, or the move raised,
\* whatever the CLI had written by then
download_leaves(outcome) ==
  IF outcome = "ok" THEN {{"input"}}
  ELSE IF outcome = "missing" THEN {{}}
  ELSE {{}, {"partial_download"}}

\* what convert_to_mkv_av1 leaves at output_path: the output when it returns
\* True; when ffmpeg failed, timed out or wrote an empty file, whatever
\* ffmpeg had written by then
convert_leaves(ok) ==
  IF ok THEN {{"output"}} ELSE {{}, {"partial_output"}}

\* _cleanup_temp_files(local_input_path, local_output_path): os.remove of
\* each path that is set and exists
_cleanup_temp_files(files, input_path, output_path) ==
  files \ ((IF input_path THEN {"input"} ELSE {})
             \cup (IF output_path THEN {"output"} ELSE {}))

\* step 1: _download_single_video
StageDownload ==
  /\ pc = "download"
  /\ \E outcome \in DownloadOutcomes :
       /\ download_result' = outcome
       /\ local_input_path' = (outcome = "ok")
       /\ pc' = after_download(outcome)
       /\ \E left \in download_leaves(outcome) : temp_files' = temp_files \cup left
  /\ calls' = Append(calls, "download")
  /\ success' = FALSE
  /\ UNCHANGED <<next_video, local_output_path, upload_result, last_run, finished,
                 monVars>>

\* step 2: _convert_video returns the output path or None
StageConvert ==
  /\ pc = "convert"
  /\ \E ok \in BOOLEAN :
       /\ local_output_path' = ok
       /\ pc' = IF ok THEN "upload" ELSE "finally"
       /\ \E left \in convert_leaves(ok) : temp_files' = temp_files \cup left
  /\ calls' = Append(calls, "convert")
  /\ success' = FALSE
  /\ UNCHANGED <<next_video, local_input_path, download_result, upload_result,
                 last_run, finished, monVars>>

\* _upload_converted_video returns True when the CLI upload or, after it
\* failed, the SDK upload succeeded; False when both failed, when the local
\* file is missing, or in its except branch
UploadOutcomes == {"cli", "sdk", "failed"}

after_upload_ignoring_failure(result) == "mark"

\* lines 86-88: a false result returns False (through finally)
after_upload(result) == IF result = "ok" THEN "mark" ELSE "finally"

\* step 3: _upload_converted_video
StageUpload ==
  /\ pc = "upload"
  /\ \E outcome \in UploadOutcomes :
       LET result == IF outcome = "failed" THEN "failed" ELSE "ok"
       IN /\ upload_result' = result
          /\ pc' = after_upload(result)
  /\ calls' = Append(calls, "upload")
  /\ success' = FALSE
  /\ UNCHANGED <<next_video, local_input_path, local_output_path, download_result,
                 last_run, finished, temp_files, monVars>>

\* step 4: self.monitor.mark_video_processed(video_path); return True
StageMark ==
  /\ pc = "mark"
  /\ mark_video_processed("worker", next_video.path)
  /\ calls' = Append(calls, "mark")
  /\ success' = TRUE
  /\ pc' = "finally"
  /\ UNCHANGED <<next_video, local_input_path, local_output_path, download_result,
                 upload_result, last_run, finished, temp_files>>

\* finally: _cleanup_temp_files(local_input_path, local_output_path)
StageCleanup ==
  /\ pc = "finally"
  /\ temp_files' = _cleanup_temp_files(temp_files, local_input_path, local_output_path)
  /\ local_input_path' = FALSE
  /\ local_output_path' = FALSE
  /\ pc' = "returned"
  /\ UNCHANGED <<next_video, download_result, upload_result, calls, success,
                 last_run, finished, monVars>>

RunRecord(recorded) ==
  [path |-> next_video.path, download |-> download_result, calls |-> calls,
   success |-> success, recorded |-> recorded]

\* run_worker, lines 314-320: a failed run is marked with mark_video_failed
RunWorkerRecord ==
  /\ pc = "returned"
  /\ IF success
     THEN /\ UNCHANGED monVars
          /\ last_run' = RunRecord("")
     ELSE /\ mark_video_failed("worker", next_video.path)
          /\ last_run' = RunRecord("mark_video_failed")
  /\ finished' = finished \cup {next_video.path}
  /\ pc' = "loop"
  /\ next_video' = None
  /\ download_result' = ""
  /\ upload_result' = ""
  /\ calls' = <<>>
  /\ success' = FALSE
  /\ temp_files' = {}
  /\ UNCHANGED <<local_input_path, local_output_path>>

\* worker_runner of simple_run.py, lines 107-112: a failed run is marked with
\* mark_video_processed on system.monitor
WorkerRunnerRecord ==
  /\ pc = "returned"
  /\ IF success
     THEN /\ UNCHANGED monVars
          /\ last_run' = RunRecord("")
     ELSE /\ mark_video_processed("system", next_video.path)
          /\ last_run' = RunRecord("mark_video_processed")
  /\ finished' = finished \cup {next_video.path}
  /\ pc' = "loop"
  /\ next_video' = None
  /\ download_result' = ""
  /\ upload_result' = ""
  /\ calls' = <<>>
  /\ success' = FALSE
  /\ temp_files' = {}
  /\ UNCHANGED <<local_input_path, local_output_path>>

(***************************************************************************)
(* ModelScopeMonitor and QueueProcessor: the folder queue.  The two are    *)
(* separate programs that share log/processing_queue.json: the monitor     *)
(* keeps its in-memory processing_queue and rewrites the file from it, the *)
(* processor re-reads the file for every operation.  The start_time and    *)
(* end_time stamps of an entry and last_modified of a folder are left out. *)
(***************************************************************************)
Folders == {"wide30g", "s10m", "mid6g", "s20m", "big5g"}

\* st_size of the first file of a folder, in MiB
FirstFileSize(f) ==
  CASE f = "wide30g" -> 30720
    [] f = "s10m"    -> 10
    [] f = "mid6g"   -> 6144
    [] f = "s20m"    -> 20
    [] OTHER         -> 5120

\* the files of folder f at content version v (version 2: a second file of
\* 1 MiB has been uploaded)
Content(f, v) ==
  IF v = 0 THEN {}
  ELSE IF v = 1 THEN {[path |-> <<f, "01.mkv">>, size |-> FirstFileSize(f)]}
  ELSE {[path |-> <<f, "01.mkv">>, size |-> FirstFileSize(f)],
        [path |-> <<f, "02.mkv">>, size |-> 1]}

RECURSIVE SumSizes(_)
SumSizes(files) ==
  IF files = {} THEN 0
  ELSE LET x == CHOOSE y \in files : TRUE IN x.size + SumSizes(files \ {x})

\* get_repository_structure: repo_structure["folders"][folder]
FolderInfo(f, v) ==
  [files |-> Content(f, v), total_size |-> SumSizes(Content(f, v)),
   file_count |-> Cardinality(Content(f, v))]

\* calculate_folder_hash: md5 of the sorted "path:size" list, which stands
\* for the set of (path, size) pairs
calculate_folder_hash(folder_info) ==
  {<<file.path, file.size>> : file \in folder_info.files}

\* last_folder_info.get("hash", "")
NoHash == {}

SmallMaxFiles == 10
SmallMaxSizeGB == 5
MediumMaxFiles == 50
MediumMaxSizeGB == 20
MBPerGB == 1024

calculate_priority_strict_bounds(folder_info) ==
  IF folder_info.file_count < SmallMaxFiles
     /\ folder_info.total_size < SmallMaxSizeGB * MBPerGB THEN 1
  ELSE IF folder_info.file_count < MediumMaxFiles
          /\ folder_info.total_size < MediumMaxSizeGB * MBPerGB THEN 2
  ELSE 3

\* calculate_priority: total_size / 1024**3 <= n is total_size (MiB) <= n * 1024
calculate_priority(folder_info) ==
  IF folder_info.file_count <= SmallMaxFiles
     /\ folder_info.total_size <= SmallMaxSizeGB * MBPerGB THEN 1
  ELSE IF folder_info.file_count <= MediumMaxFiles
          /\ folder_info.total_size <= MediumMaxSizeGB * MBPerGB THEN 2
  ELSE 3

sort_by_priority_missing(queue) == queue

\* processing_queue.sort(key=lambda x: x["priority"]): a stable sort
sort_by_priority(queue) ==
  SelectSeq(queue, LAMBDA item : item.priority = 1)
    \o SelectSeq(queue, LAMBDA item : item.priority = 2)
    \o SelectSeq(queue, LAMBDA item : item.priority = 3)

\* add_to_queue: the queue afterwards (it is then saved)
add_to_queue(queue, folder_name, folder_info, added_time) ==
  sort_by_priority(
    Append(queue, [folder |-> folder_name, file_count |-> folder_info.file_count,
                   total_size |-> folder_info.total_size, added_time |-> added_time,
                   status |-> "pending",
                   priority |-> calculate_priority(folder_info)]))

already_queued_head_only(queue, folder_name) ==
  queue # <<>> /\ queue[1].folder = folder_name

\* detect_completed_folders, line 187
already_queued(queue, folder_name) ==
  \E i \in 1..Len(queue) : queue[i].folder = folder_name

min_folder_stable_time == 600
monitor_interval == 300

stable_long_enough_after_one_interval(now_time, last_check_time) ==
  now_time - last_check_time >= monitor_interval

\* detect_completed_folders, line 220
stable_long_enough(now_time, last_check_time) ==
  now_time - last_check_time >= min_folder_stable_time

LastHash(folders, f) == IF f \in DOMAIN folders THEN folders[f].hash ELSE NoHash
LastCheckTime(folders, f) == IF f \in DOMAIN folders THEN folders[f].last_check_time ELSE 0

\* the loop of detect_completed_folders over the folders in `names`;
\* `folders` is last_state["folders"], `completed` is completed_folders
RECURSIVE detect_scan(_, _, _, _, _, _, _)
detect_scan(names, structure, force, queue, folders, now_time, completed) ==
  IF names = <<>> THEN [completed |-> completed, folders |-> folders]
  ELSE
    LET folder_name == Head(names)
        folder_info == FolderInfo(folder_name, structure[folder_name])
        current_hash == calculate_folder_hash(folder_info)
    IN IF already_queued(queue, folder_name)
       THEN detect_scan(Tail(names), structure, force, queue, folders, now_time,
                        completed)
       ELSE IF force
       THEN detect_scan(Tail(names), structure, force, queue, folders, now_time,
                        IF folder_info.file_count > 0
                        THEN Append(completed, folder_name) ELSE completed)
       ELSE IF current_hash # LastHash(folders, folder_name)
       THEN detect_scan(Tail(names), structure, force, queue,
                        (folder_name :> [hash |-> current_hash,
                                         last_check_time |-> now_time,
                                         file_count |-> folder_info.file_count,
                                         total_size |-> folder_info.total_size])
                          @@ folders,
                        now_time, completed)
       ELSE detect_scan(Tail(names), structure, force, queue, folders, now_time,
                        IF stable_long_enough(now_time,
                                              LastCheckTime(folders, folder_name))
                           /\ folder_info.file_count > 0
                        THEN Append(completed, folder_name) ELSE completed)

Present == {f \in Folders : repo_version[f] # 0}

\* monitor_once up to the call of detect_completed_folders: the structure is
\* listed, the folders are walked in the order of the listing
MonitorDetect(force) ==
  /\ mpc = "idle"
  /\ \E names \in Perms(Present) :
       LET r == detect_scan(names, repo_version, force, processing_queue,
                            last_state.folders, now, <<>>)
       IN /\ completed_folders' = r.completed
          /\ found' = Len(r.completed)
          /\ last_state' = [last_state EXCEPT !.folders = r.folders]
  /\ force_all' = force
  /\ current_time' = now
  /\ current_structure' = repo_version
  /\ mpc' = "adding"
  /\ UNCHANGED <<catalog, repo_version, now, stamp, processing_queue,
                 monitor_state_file, processing_queue_file, qpc, pending_items,
                 item_to_process, new_status, served>>

\* monitor_once, lines 292-295: get_repository_structure failed and returned
\* {}; monitor_once returns 0 and nothing else changes
MonitorListingFails ==
  /\ mpc = "idle"
  /\ found' = 0
  /\ UNCHANGED <<catalog, repo_version, now, stamp, last_state, processing_queue,
                 monitor_state_file, processing_queue_file, mpc, force_all,
                 current_time, current_structure, completed_folders, qpc,
                 pending_items, item_to_process, new_status, served>>

\* monitor_once, lines 301-303: add_to_queue for the next completed folder
MonitorAdd ==
  /\ mpc = "adding"
  /\ completed_folders # <<>>
  /\ LET folder_name == Head(completed_folders)
     IN processing_queue' =
          add_to_queue(processing_queue, folder_name,
                       FolderInfo(folder_name, current_structure[folder_name]), stamp)
  /\ processing_queue_file' = processing_queue'
  /\ stamp' = stamp + 1
  /\ completed_folders' = Tail(completed_folders)
  /\ UNCHANGED <<catalog, repo_version, now, last_state, monitor_state_file, mpc,
                 force_all, current_time, current_structure, found, qpc,
                 pending_items, item_to_process, new_status, served>>

\* monitor_once, lines 305-314: last_check, save_state, return
MonitorFinish ==
  /\ mpc = "adding"
  /\ completed_folders = <<>>
  /\ last_state' = [last_state EXCEPT !.last_check = now]
  /\ monitor_state_file' = last_state'
  /\ mpc' = "idle"
  /\ current_structure' = [f \in Folders |-> 0]
  /\ UNCHANGED <<catalog, repo_version, now, stamp, processing_queue,
                 processing_queue_file, force_all, current_time, completed_folders,
                 found, qpc, pending_items, item_to_process, new_status, served>>

\* QueueProcessor.get_pending_items on the loaded file
get_pending_items(queue) == SelectSeq(queue, LAMBDA item : item.status = "pending")

max_concurrent == 1

\* mark_item_status: the first entry of the folder gets the status
set_status(queue, folder_name, status) ==
  LET hits == {i \in 1..Len(queue) : queue[i].folder = folder_name}
  IN IF hits = {} THEN queue
     ELSE LET first == CHOOSE i \in hits : \A j \in hits : i <= j
          IN [queue EXCEPT ![first].status = status]

monitorSide == <<catalog, repo_version, now, stamp, last_state, processing_queue,
                 monitor_state_file, mpc, force_all, current_time, current_structure,
                 completed_folders, found>>

\* run_processor, lines 173-178
ProcessorPoll ==
  /\ qpc = "poll"
  /\ pending_items' = get_pending_items(processing_queue_file)
  /\ qpc' = IF pending_items' = <<>> THEN "poll" ELSE "count"
  /\ UNCHANGED <<monitorSide, processing_queue_file, item_to_process,
                 new_status, served>>

at_capacity_never(processing_count) == FALSE

\* run_processor, line 184: processing_count >= self.max_concurrent
at_capacity(processing_count) == processing_count >= max_concurrent

\* run_processor, lines 181-191
ProcessorCount ==
  /\ qpc = "count"
  /\ LET processing_count ==
           Len(SelectSeq(processing_queue_file, LAMBDA item : item.status = "processing"))
     IN IF at_capacity(processing_count)
        THEN /\ qpc' = "poll"
             /\ pending_items' = <<>>
             /\ UNCHANGED item_to_process
        ELSE /\ qpc' = "space"
             /\ item_to_process' = pending_items[1].folder
             /\ UNCHANGED pending_items
  /\ UNCHANGED <<monitorSide, processing_queue_file, new_status, served>>

\* run_processor, lines 194-200: check_free_space, then process_folder is
\* entered with the entry
ProcessorSpace ==
  /\ qpc = "space"
  /\ \E enough \in BOOLEAN :
       IF enough
       THEN /\ qpc' = "mark"
            /\ new_status' = "processing"
            /\ served' = IF served # <<>> \/ Len(pending_items) = Cardinality(catalog)
                         THEN Append(served, item_to_process)
                         ELSE served
            /\ pending_items' = <<>>
            /\ UNCHANGED item_to_process
       ELSE /\ qpc' = "poll"
            /\ pending_items' = <<>>
            /\ item_to_process' = ""
            /\ UNCHANGED <<new_status, served>>
  /\ UNCHANGED <<monitorSide, processing_queue_file>>

\* mark_item_status: load_queue, set the status, save_queue, taken as one step
ProcessorMark ==
  /\ qpc = "mark"
  /\ processing_queue_file' = set_status(processing_queue_file, item_to_process, new_status)
  /\ IF new_status = "processing"
     THEN /\ qpc' = "work"
          /\ UNCHANGED <<pending_items, item_to_process, new_status>>
     ELSE /\ qpc' = "poll"
          /\ pending_items' = <<>>
          /\ item_to_process' = ""
          /\ new_status' = ""
  /\ UNCHANGED <<monitorSide, served>>

\* process_folder, lines 82-139: the folder ends completed (success rate of
\* at least 80%) or failed (no disk space, no videos, low rate, exception)
ProcessorWork ==
  /\ qpc = "work"
  /\ \E outcome \in {"completed", "failed"} : new_status' = outcome
  /\ qpc' = "mark"
  /\ UNCHANGED <<monitorSide, processing_queue_file, pending_items, item_to_process, served>>

\* a folder of the catalog appears in the repository
FolderUpload ==
  \E f \in catalog :
    /\ repo_version[f] = 0
    /\ repo_version' = [repo_version EXCEPT ![f] = 1]
    /\ UNCHANGED <<catalog, now, stamp, last_state, processing_queue,
                   monitor_state_file, processing_queue_file, mpc, force_all,
                   current_time, current_structure, completed_folders, found, qpc,
                   pending_items, item_to_process, new_status, served>>

\* the content of a folder changes (an upload to it goes on, or is undone)
FolderChange ==
  \E f \in catalog :
    /\ repo_version[f] # 0
    /\ repo_version' = [repo_version EXCEPT ![f] = 3 - @]
    /\ UNCHANGED <<catalog, now, stamp, last_state, processing_queue,
                   monitor_state_file, processing_queue_file, mpc, force_all,
                   current_time, current_structure, completed_folders, found, qpc,
                   pending_items, item_to_process, new_status, served>>

\* time passes, one monitor_interval at a time
Tick ==
  /\ now < MaxTicks * monitor_interval
  /\ now' = now + monitor_interval
  /\ UNCHANGED <<catalog, repo_version, stamp, last_state, processing_queue,
                 monitor_state_file, processing_queue_file, mpc, force_all,
                 current_time, current_structure, completed_folders, found, qpc,
                 pending_items, item_to_process, new_status, served>>

\* ModelScopeMonitor.__init__ with no state file and no queue file, and a
\* QueueProcessor about to poll
FolderStart ==
  /\ repo_version = [f \in Folders |-> 0]
  /\ now = 0
  /\ stamp = 1
  /\ last_state = [folders |-> <<>>, last_check |-> -1]
  /\ processing_queue = <<>>
  /\ monitor_state_file = [folders |-> <<>>, last_check |-> -1]
  /\ processing_queue_file = <<>>
  /\ mpc = "idle"
  /\ force_all = FALSE
  /\ current_time = 0
  /\ current_structure = [f \in Folders |-> 0]
  /\ completed_folders = <<>>
  /\ found = 0
  /\ qpc = "poll"
  /\ pending_items = <<>>
  /\ item_to_process = ""
  /\ new_status = ""
  /\ served = <<>>

FolderIdle == catalog = {} /\ FolderStart

\* the queue files an earlier run of monitor and processor can have left:
\* three folders in the order add_to_queue gave them, each pending, completed
\* or failed, and at most one left in status processing by a processor that
\* was interrupted
Statuses == {"pending", "processing", "completed", "failed"}

LeftFolderQueues ==
  LET queue == add_to_queue(
                 add_to_queue(add_to_queue(<<>>, "mid6g", FolderInfo("mid6g", 1), 1),
                              "s10m", FolderInfo("s10m", 1), 2),
                 "s20m", FolderInfo("s20m", 1), 3)
  IN {[i \in 1..Len(queue) |-> [queue[i] EXCEPT !.status = st[i]]] :
        st \in {t \in [1..Len(queue) -> Statuses] :
                  Cardinality({i \in 1..Len(queue) : t[i] = "processing"})
                    <= max_concurrent}}

\* a QueueProcessor is started on such a file; no monitor runs
ProcessorStart ==
  /\ catalog = {}
  /\ repo_version = [f \in Folders |-> 0]
  /\ now = 0
  /\ stamp = 1
  /\ last_state = [folders |-> <<>>, last_check |-> -1]
  /\ processing_queue = <<>>
  /\ monitor_state_file = [folders |-> <<>>, last_check |-> -1]
  /\ processing_queue_file \in LeftFolderQueues
  /\ mpc = "idle"
  /\ force_all = FALSE
  /\ current_time = 0
  /\ current_structure = [f \in Folders |-> 0]
  /\ completed_folders = <<>>
  /\ found = 0
  /\ qpc = "poll"
  /\ pending_items = <<>>
  /\ item_to_process = ""
  /\ new_status = ""
  /\ served = <<>>

(***************************************************************************)
(* The disk-space gate: utils.check_free_space and                         *)
(* AnimationProcessor.download_video_to_local (main.py).  Sizes are in     *)
(* MiB, so a quantity of n GB is n * MBPerGB; the rounding of the float    *)
(* division by 1024**3 is not modelled.                                    *)
(***************************************************************************)
SafetyMarginGB == 1

\* free space the disk can have, in steps of half a GB
FreeSpaces == {h * (MBPerGB \div 2) : h \in 0..(2 * MaxFreeGB)}

\* st_size of the remote video on the NAS
RemoteSizes == {10, MBPerGB + (MBPerGB \div 2), 3 * MBPerGB}

\* get_disk_usage(path)['free']
get_disk_usage(free) == [free |-> free]

\* check_free_space(path, min_gb): usage['free'] >= min_gb
check_free_space(free, min_gb) == get_disk_usage(free).free >= min_gb

\* NASConnector.get_file_size: the size stat prints, 0 when the ssh call
\* fails, times out or raises
get_file_size(remote_size, stat_ok) == IF stat_ok THEN remote_size ELSE 0

\* download_video_to_local: what it returns ("path" for local_video_path,
\* "None") and whether copy_file_from_nas was invoked
download_video_to_local(free, local_exists, remote_exists, file_size, copy_ok) ==
  IF local_exists THEN [ret |-> "path", copy_invoked |-> FALSE]
  ELSE IF ~remote_exists THEN [ret |-> "None", copy_invoked |-> FALSE]
  ELSE LET required_space_gb == file_size + SafetyMarginGB * MBPerGB
       IN IF ~check_free_space(free, required_space_gb)
          THEN [ret |-> "None", copy_invoked |-> FALSE]
          ELSE [ret |-> IF copy_ok THEN "path" ELSE "None", copy_invoked |-> TRUE]

NoDiskCall ==
  [op |-> "", free |-> 0, min_gb |-> 0, result |-> FALSE, local_exists |-> FALSE,
   remote_exists |-> FALSE, remote_size |-> 0, file_size |-> 0, ret |-> "",
   copy_invoked |-> FALSE]

DiskIdle == disk_free = 0 /\ disk_call = NoDiskCall

(***************************************************************************)
(* Serialization: json.dump / json.load as save_state, save_queue,         *)
(* save_progress and their load counterparts use them.  A JSON text is     *)
(* modelled by its value tree: strings and numbers are tagged leaves, an   *)
(* array keeps the order of its items, an object is its set of members.    *)
(***************************************************************************)
JStr(text) == [kind |-> "string", text |-> text, num |-> 0, items |-> <<>>]
JNum(num) == [kind |-> "number", text |-> "", num |-> num, items |-> <<>>]
JArr(items) == [kind |-> "array", text |-> "", num |-> 0, items |-> items]

\* obj.get(key, default) on the members of a JSON object
Member(members, key, default) ==
  IF \E m \in members : m[1] = key
  THEN (CHOOSE m \in members : m[1] = key)[2]
  ELSE default

\* json.dump(self.video_queue): an array of one object per entry
dump_queue(queue) ==
  [i \in 1..Len(queue) |->
     {<<"path", JStr(queue[i].path)>>, <<"size", JNum(queue[i].size)>>,
      <<"status", JStr(queue[i].status)>>, <<"priority", JNum(queue[i].priority)>>}]

\* load_queue: self.video_queue = json.load(f)
rt_load_queue(file) ==
  [i \in 1..Len(file) |->
     [path |-> Member(file[i], "path", JStr("")).text,
      size |-> Member(file[i], "size", JNum(0)).num,
      status |-> Member(file[i], "status", JStr("")).text,
      priority |-> Member(file[i], "priority", JNum(0)).num]]

\* save_state: {'processed_videos': list(self.processed_videos),
\* 'last_update': ...} with the list in the order `order` of the set
dump_state(order) ==
  {<<"processed_videos", JArr([i \in 1..Len(order) |-> JStr(order[i])])>>,
   <<"last_update", JStr("isoformat")>>}

rt_load_state_first_only(file) ==
  LET list == Member(file, "processed_videos", JArr(<<>>)).items
  IN IF list = <<>> THEN {} ELSE {list[1].text}

\* load_state: set(state.get('processed_videos', []))
rt_load_state(file) ==
  LET list == Member(file, "processed_videos", JArr(<<>>)).items
  IN {list[i].text : i \in 1..Len(list)}

\* save_progress(progress_file, data): data maps keys to lists of strings
save_progress(data) ==
  {<<k, JArr([i \in 1..Len(data[k]) |-> JStr(data[k][i])])>> : k \in DOMAIN data}

\* load_progress(progress_file): json.load(f)
load_progress(file) ==
  LET keys == {m[1] : m \in file}
  IN [k \in keys |->
        LET list == Member(file, k, JArr(<<>>)).items
        IN [i \in 1..Len(list) |-> list[i].text]]

\* the progress records AnimationProcessor keeps: processed_videos and
\* completed_series, each present once something was recorded under it
ProgressKeys == {"processed_videos", "completed_series"}
ProgressLists == {<<>>, <<"ep01">>, <<"ep02", "ep01">>}
ProgressRecords == UNION {[K -> ProgressLists] : K \in SUBSET ProgressKeys}

\* the queues SimpleVideoMonitor can hold: distinct pending entries
MonitorQueues ==
  UNION {{[i \in 1..Cardinality(Q) |->
             [path |-> q[i], size |-> SizeOf(q[i]), status |-> "pending",
              priority |-> 1]] : q \in Perms(Q)} : Q \in SUBSET Paths}

NoFiles == [saved |-> FALSE, queue |-> <<>>, state |-> {}, progress |-> {}]
NotLoaded == [loaded |-> FALSE, queue |-> <<>>, processed |-> {}, progress |-> <<>>]

RtIdle ==
  /\ rt_memory = [queue |-> <<>>, processed |-> {}, progress |-> <<>>]
  /\ rt_files = NoFiles
  /\ rt_loaded = NotLoaded

\* save_queue, save_state and save_progress write the three files
RtSave ==
  /\ ~rt_files.saved
  /\ \E order \in Perms(rt_memory.processed) :
       rt_files' = [saved |-> TRUE, queue |-> dump_queue(rt_memory.queue),
                    state |-> dump_state(order),
                    progress |-> save_progress(rt_memory.progress)]
  /\ UNCHANGED <<rt_memory, rt_loaded, diskVars, runVars, apVars, extVars, simpleVars, fldVars>>

\* a new instance: load_state, load_queue (SimpleVideoMonitor.__init__) and
\* load_progress (AnimationProcessor.__init__)
RtLoad ==
  /\ rt_files.saved
  /\ ~rt_loaded.loaded
  /\ rt_loaded' = [loaded |-> TRUE, queue |-> rt_load_queue(rt_files.queue),
                    processed |-> rt_load_state(rt_files.state),
                    progress |-> load_progress(rt_files.progress)]
  /\ UNCHANGED <<rt_memory, rt_files, diskVars, runVars, apVars, extVars, simpleVars, fldVars>>

\* no process has been killed yet
NoCrash == [path |-> "", state |-> "none", count |-> 0]

\* __init__ has not loaded the files yet
NoStart == [done |-> FALSE, unreadable |-> FALSE, processed |-> {}]

RunIdle == crashed = NoCrash /\ started = NoStart

(***************************************************************************)
(* AnimationProcessor (main.py): the progress ledger progress.json lies in *)
(* Config.TEMP_DIR.  __init__ loads it, process_series appends a finished  *)
(* series to completed_series and saves it, and the finally block of run   *)
(* calls archive_manager.cleanup_temp_files(Config.TEMP_DIR).              *)
(***************************************************************************)
MaxRuns == 2

\* series_dict of run, in the order organize_videos_by_series built it
SeriesOrder == <<"seriesA", "seriesB">>

NoProgressFile == [exists |-> FALSE, text |-> {}]

\* self.progress.get(key, [])
ProgressGet(data, key) == IF key \in DOMAIN data THEN data[key] ELSE <<>>

\* lines 307-310: completed_series is created if missing, series_name appended
mark_series_completed(data, series_name) ==
  [k \in DOMAIN data \cup {"completed_series"} |->
     IF k = "completed_series"
     THEN Append(ProgressGet(data, "completed_series"), series_name)
     ELSE data[k]]

\* load_progress(progress_file) of __init__: {} when the file is missing
load_progress_file(file) == IF file.exists THEN load_progress(file.text) ELSE <<>>

\* ArchiveManager.cleanup_temp_files(TEMP_DIR): shutil.rmtree removes the
\* directory with everything in it; if rmtree raises, the error is logged
cleanup_temp_files(file, removed) == IF removed THEN NoProgressFile ELSE file

ApIdle ==
  /\ ap_pc = "new"
  /\ ap_run = 1
  /\ ap_index = 1
  /\ progress = <<>>
  /\ progress_file = NoProgressFile
  /\ ap_completed = [r \in 1..MaxRuns |-> {}]
  /\ ap_worked = [r \in 1..MaxRuns |-> {}]

\* AnimationProcessor.__init__, lines 41-42
ApConstruct ==
  /\ ap_pc = "new"
  /\ progress' = load_progress_file(progress_file)
  /\ ap_index' = 1
  /\ ap_pc' = "run"
  /\ UNCHANGED <<ap_run, progress_file, ap_completed, ap_worked>>

\* run, lines 365-382: one turn of the loop over series_dict: the disk check
\* (break when space is short), then process_series
ApSeries ==
  /\ ap_pc = "run"
  /\ ap_index <= Len(SeriesOrder)
  /\ LET series_name == SeriesOrder[ap_index]
     IN \E disk_low \in BOOLEAN, outcome \in {"completed", "failed"} :
          IF disk_low
          THEN /\ ap_pc' = "finally"
               /\ UNCHANGED <<ap_run, ap_index, progress, progress_file, ap_completed,
                              ap_worked>>
          ELSE IF \E i \in 1..Len(ProgressGet(progress, "completed_series")) :
                    ProgressGet(progress, "completed_series")[i] = series_name
          THEN \* lines 213-215: already completed, skipped
               /\ ap_index' = ap_index + 1
               /\ UNCHANGED <<ap_pc, ap_run, progress, progress_file, ap_completed,
                              ap_worked>>
          ELSE /\ ap_worked' = [ap_worked EXCEPT ![ap_run] = @ \cup {series_name}]
               /\ ap_index' = ap_index + 1
               /\ IF outcome = "completed"
                  THEN /\ progress' = mark_series_completed(progress, series_name)
                       /\ progress_file' = [exists |-> TRUE,
                                            text |-> save_progress(progress')]
                       /\ ap_completed' = [ap_completed EXCEPT
                                             ![ap_run] = @ \cup {series_name}]
                  ELSE UNCHANGED <<progress, progress_file, ap_completed>>
               /\ UNCHANGED <<ap_pc, ap_run>>

\* the loop over series_dict is through
ApLoopEnd ==
  /\ ap_pc = "run"
  /\ ap_index > Len(SeriesOrder)
  /\ ap_pc' = "finally"
  /\ UNCHANGED <<ap_run, ap_index, progress, progress_file, ap_completed, ap_worked>>

\* run, lines 390-395: finally
ApFinally ==
  /\ ap_pc = "finally"
  /\ \E removed \in BOOLEAN : progress_file' = cleanup_temp_files(progress_file, removed)
  /\ ap_pc' = "ended"
  /\ UNCHANGED <<ap_run, ap_index, progress, ap_completed, ap_worked>>

\* the program is started again
ApNextRun ==
  /\ ap_pc = "ended"
  /\ ap_run < MaxRuns
  /\ ap_run' = ap_run + 1
  /\ ap_pc' = "new"
  /\ ap_index' = 1
  /\ progress' = <<>>
  /\ UNCHANGED <<progress_file, ap_completed, ap_worked>>

(***************************************************************************)
(* SimpleVideoSystem (simple_run.py): run_system, stop_system and the two  *)
(* loops monitor_worker and worker_runner that start_monitor and           *)
(* start_worker put on daemon threads.  A thread is a record: where it     *)
(* stands (pc), the turns of its sleep loop done (i), why it returned      *)
(* (reason), and, from the moment running was cleared while it slept, the  *)
(* i it had then (at_stop).                                                *)
(***************************************************************************)
monitor_sleep_steps == 300
worker_sleep_steps == 30

\* the methods class SimpleVideoSystem defines
SystemMethods == {"__init__", "initialize_queue", "start_monitor", "start_worker",
                  "run_system", "stop_system", "show_status"}

Modes == {"full", "no-init", "init-only"}

NoThread == [pc |-> "none", i |-> 0, reason |-> "", at_stop |-> -1]

SchIdle ==
  /\ running = FALSE
  /\ rs = [pc |-> "idle", mode |-> "", error |-> ""]
  /\ mthread = NoThread
  /\ wthread = NoThread

sleep_break_never(flag) == FALSE

\* `if not self.running: break` in the sleep loops
sleep_break(flag) == ~flag

\* one turn of `for _ in range(steps): if not self.running: break;
\* time.sleep(1)`: the range is exhausted, the loop breaks, or sleep(1) begins
SleepTurn(t, steps) ==
  IF t.i >= steps THEN [t EXCEPT !.pc = "while"]
  ELSE IF sleep_break(running) THEN [t EXCEPT !.pc = "while"]
  ELSE [t EXCEPT !.pc = "sleep"]

\* `while self.running:` of either loop; the function returns when it is false
WhileTest(t, body) ==
  IF running THEN [t EXCEPT !.pc = body]
  ELSE [t EXCEPT !.pc = "returned", !.reason = "stopped"]

\* monitor_worker, line 74
MonitorWhile ==
  /\ mthread.pc = "while"
  /\ mthread' = WhileTest(mthread, "cycle")
  /\ UNCHANGED <<running, rs, wthread>>

\* monitor_worker, lines 76-79: monitor_once returns a count; an exception
\* inside it is caught there and it returns 0
MonitorCycle ==
  /\ mthread.pc = "cycle"
  /\ \E outcome \in {"new", "nothing", "failed_inside"} :
       mthread' = [mthread EXCEPT !.pc = "for", !.i = 0]
  /\ UNCHANGED <<running, rs, wthread>>

\* monitor_worker, lines 82-84
MonitorSleepTurn ==
  /\ mthread.pc = "for"
  /\ mthread' = SleepTurn(mthread, monitor_sleep_steps)
  /\ UNCHANGED <<running, rs, wthread>>

\* time.sleep(1) returns
MonitorWake ==
  /\ mthread.pc = "sleep"
  /\ mthread' = [mthread EXCEPT !.pc = "for", !.i = @ + 1]
  /\ UNCHANGED <<running, rs, wthread>>

\* worker_runner, line 98
WorkerWhile ==
  /\ wthread.pc = "while"
  /\ wthread' = WhileTest(wthread, "dequeue")
  /\ UNCHANGED <<running, rs, mthread>>

\* worker_runner, lines 100-103: get_next_video returns an entry or None;
\* next_video['path'] raises KeyError on an entry without that key (load_queue
\* takes whatever JSON the queue file holds)
WorkerTake ==
  /\ wthread.pc = "dequeue"
  /\ \E outcome \in {"entry", "None", "raises"} :
       wthread' = CASE outcome = "entry" -> [wthread EXCEPT !.pc = "process"]
                    [] outcome = "None" -> [wthread EXCEPT !.pc = "for", !.i = 0]
                    [] OTHER -> [wthread EXCEPT !.pc = "caught"]
  /\ UNCHANGED <<running, rs, mthread>>

\* worker_runner, lines 104-116: process_single_video turns every exception
\* of its stages into False; the outcome is recorded and the status logged
WorkerProcess ==
  /\ wthread.pc = "process"
  /\ \E succeeded \in BOOLEAN :
       wthread' = [wthread EXCEPT !.pc = "while"]
  /\ UNCHANGED <<running, rs, mthread>>

\* worker_runner, lines 120-124
WorkerSleepTurn ==
  /\ wthread.pc = "for"
  /\ wthread' = SleepTurn(wthread, worker_sleep_steps)
  /\ UNCHANGED <<running, rs, mthread>>

WorkerWake ==
  /\ wthread.pc = "sleep"
  /\ wthread' = [wthread EXCEPT !.pc = "for", !.i = @ + 1]
  /\ UNCHANGED <<running, rs, mthread>>

\* worker_runner, lines 126-127: `except Exception` lies outside the while
\* loop: the error is logged and the function returns
WorkerCaught ==
  /\ wthread.pc = "caught"
  /\ wthread' = [wthread EXCEPT !.pc = "returned", !.reason = "exception"]
  /\ UNCHANGED <<running, rs, mthread>>

\* a caller sets system.running and calls start_monitor() / start_worker()
CallStartMonitor ==
  /\ rs.pc = "idle"
  /\ mthread.pc = "none"
  /\ running' = TRUE
  /\ mthread' = [mthread EXCEPT !.pc = "while"]
  /\ UNCHANGED <<rs, wthread>>

CallStartWorker ==
  /\ rs.pc = "idle"
  /\ wthread.pc = "none"
  /\ running' = TRUE
  /\ wthread' = [wthread EXCEPT !.pc = "while"]
  /\ UNCHANGED <<rs, mthread>>

\* what a thread notes when running is cleared while it is in its sleep loop
NoteStop(t) ==
  IF t.pc \in {"for", "sleep"} /\ t.at_stop = -1 THEN [t EXCEPT !.at_stop = t.i] ELSE t

\* stop_system, line 189 (the joins that follow wait at most 5 and 10 seconds)
stop_system ==
  /\ running' = FALSE
  /\ mthread' = NoteStop(mthread)
  /\ wthread' = NoteStop(wthread)

\* the caller calls stop_system() and starts nothing after it
CallStopSystem ==
  /\ rs.pc = "idle"
  /\ running
  /\ stop_system
  /\ rs' = [rs EXCEPT !.pc = "stopped"]

\* main(): system.run_system(args.mode)
RunSystemCall ==
  /\ rs.pc = "idle"
  /\ ~running
  /\ mthread.pc = "none"
  /\ wthread.pc = "none"
  /\ \E mode \in Modes : rs' = [pc |-> "init", mode |-> mode, error |-> ""]
  /\ UNCHANGED <<running, mthread, wthread>>

\* run_system, lines 137-148: the initialization phase; init-only returns
RunSystemInit ==
  /\ rs.pc = "init"
  /\ rs' = [rs EXCEPT !.pc = IF rs.mode = "init-only" THEN "finally" ELSE "spawn"]
  /\ UNCHANGED <<running, mthread, wthread>>

\* run_system, lines 151-162: running = True, then
\* threading.Thread(target=self._run_monitor, ...): the attribute lookup
\* raises AttributeError when the class has no such method
RunSystemSpawn ==
  /\ rs.pc = "spawn"
  /\ running' = TRUE
  /\ IF "_run_monitor" \in SystemMethods /\ "_run_worker" \in SystemMethods
     THEN /\ mthread' = [mthread EXCEPT !.pc = "while"]
          /\ wthread' = [wthread EXCEPT !.pc = "while"]
          /\ rs' = [rs EXCEPT !.pc = "status"]
     ELSE /\ rs' = [rs EXCEPT !.pc = "except", !.error = "AttributeError"]
          /\ UNCHANGED <<mthread, wthread>>

\* run_system, lines 165-177: the status loop, until KeyboardInterrupt
RunSystemStatus ==
  /\ rs.pc = "status"
  /\ \E interrupted \in BOOLEAN :
       rs' = [rs EXCEPT !.pc = IF interrupted \/ ~running THEN "finally" ELSE "status"]
  /\ UNCHANGED <<running, mthread, wthread>>

\* run_system, lines 181-182: except Exception: the error is logged
RunSystemExcept ==
  /\ rs.pc = "except"
  /\ rs' = [rs EXCEPT !.pc = "finally"]
  /\ UNCHANGED <<running, mthread, wthread>>

\* run_system, lines 183-184: finally: self.stop_system()
RunSystemFinally ==
  /\ rs.pc = "finally"
  /\ stop_system
  /\ rs' = [rs EXCEPT !.pc = "returned"]

\* no mark_video_processed is under way
NoMarking == [pc |-> "idle", original_length |-> 0, new_queue |-> <<>>]

RaceIdle == marking = NoMarking

\* no process_series call is modelled step by step
NoCall == [pc |-> "none", i |-> 0, all_frames |-> {}, archive |-> "none", result |-> ""]

BatchIdle == ps = NoCall

ExtIdle == SchIdle /\ RaceIdle /\ BatchIdle

AuxIdle == DiskIdle /\ RtIdle /\ RunIdle /\ ApIdle /\ ExtIdle

\* other processes fill or free the disk
DiskUsageChanges ==
  /\ \E free \in FreeSpaces : disk_free' = free
  /\ UNCHANGED <<disk_call, rtVars, runVars, apVars, extVars, simpleVars, fldVars>>

CallCheckFreeSpace ==
  /\ \E G \in 1..(MaxFreeGB + 1) :
       disk_call' = [NoDiskCall EXCEPT !.op = "check_free_space",
                                       !.free = disk_free,
                                       !.min_gb = G * MBPerGB,
                                       !.result = check_free_space(disk_free, G * MBPerGB)]
  /\ UNCHANGED <<disk_free, rtVars, runVars, apVars, extVars, simpleVars, fldVars>>

CallDownloadVideoToLocal ==
  /\ \E local_exists, remote_exists, stat_ok, copy_ok \in BOOLEAN,
        remote_size \in RemoteSizes :
       LET file_size == get_file_size(remote_size, stat_ok)
           r == download_video_to_local(disk_free, local_exists, remote_exists,
                                        file_size, copy_ok)
       IN disk_call' = [NoDiskCall EXCEPT !.op = "download_video_to_local",
                                          !.free = disk_free,
                                          !.local_exists = local_exists,
                                          !.remote_exists = remote_exists,
                                          !.remote_size = remote_size,
                                          !.file_size = file_size,
                                          !.ret = r.ret,
                                          !.copy_invoked = r.copy_invoked]
  /\ UNCHANGED <<disk_free, rtVars, runVars, apVars, extVars, simpleVars, fldVars>>

(***************************************************************************)
(* One SimpleVideoMonitor (system.monitor) driven by arbitrary calls.      *)
(***************************************************************************)
M == "system"

Call(op, arg, ret_item, ret_count) ==
  [op |-> op, arg |-> arg, ret_item |-> ret_item, ret_count |-> ret_count,
   prev |-> last.op, prev_arg |-> last.arg, pre_queue |-> video_queue[M],
   pre_processed |-> processed_videos[M], pre_queue_file |-> queue_file]

InitMonitor ==
  /\ repo = {}
  /\ processed_videos = [m \in Monitors |-> {}]
  /\ video_queue = [m \in Monitors |-> <<>>]
  /\ state_file = [exists |-> FALSE, processed_videos |-> {}]
  /\ queue_file = [exists |-> FALSE, queue |-> <<>>, readable |-> TRUE]
  /\ last = [op |-> "init", arg |-> "", ret_item |-> None, ret_count |-> 0,
             prev |-> "", prev_arg |-> "", pre_queue |-> <<>>, pre_processed |-> {},
             pre_queue_file |-> [exists |-> FALSE, queue |-> <<>>, readable |-> TRUE]]
  /\ WorkerIdle
  /\ FolderIdle
  /\ AuxIdle

\* a video is uploaded to the input repository
RepoUpload ==
  \E p \in Paths \ repo :
    /\ repo' = repo \cup {p}
    /\ last' = Call("upload", p, None, 0)
    /\ UNCHANGED <<monVars, wrkVars, fldVars, auxVars>>

CallAddVideoToQueue ==
  \E p \in Paths :
    /\ Len(video_queue[M]) < MaxQueue
    /\ AddVideoToQueue(M, VideoInfo(p))
    /\ last' = Call("add_video_to_queue", p, None, 0)
    /\ UNCHANGED <<repo, wrkVars, fldVars, auxVars>>

CallMonitorOnce ==
  \E current_videos \in repo_listing, n \in 0..Cardinality(Paths) :
    /\ Len(video_queue[M]) < MaxQueue
    /\ monitor_once(M, current_videos, n)
    /\ last' = Call("monitor_once", "", None, n)
    /\ UNCHANGED <<repo, wrkVars, fldVars, auxVars>>

CallInitializeFromExisting ==
  \E all_videos \in repo_listing, n \in 0..Cardinality(Paths) :
    /\ Len(video_queue[M]) < MaxQueue
    /\ initialize_from_existing(M, all_videos, n)
    /\ last' = Call("initialize_from_existing", "", None, n)
    /\ UNCHANGED <<repo, wrkVars, fldVars, auxVars>>

CallGetNextVideo ==
  \E nv \in {None} \cup {video_queue[M][i] : i \in 1..Len(video_queue[M])} :
    /\ get_next_video(M, nv)
    /\ last' = Call("get_next_video", "", nv, 0)
    /\ UNCHANGED <<repo, wrkVars, fldVars, auxVars>>

CallMarkVideoProcessed ==
  \E p \in Paths :
    /\ mark_video_processed(M, p)
    /\ last' = Call("mark_video_processed", p, None, 0)
    /\ UNCHANGED <<repo, wrkVars, fldVars, auxVars>>

CallMarkVideoFailed ==
  \E p \in Paths :
    /\ mark_video_failed(M, p)
    /\ last' = Call("mark_video_failed", p, None, 0)
    /\ UNCHANGED <<repo, wrkVars, fldVars, auxVars>>

NextMonitor ==
  \/ RepoUpload
  \/ CallAddVideoToQueue
  \/ CallMonitorOnce
  \/ CallInitializeFromExisting
  \/ CallGetNextVideo
  \/ CallMarkVideoProcessed
  \/ CallMarkVideoFailed

SpecMonitor == InitMonitor /\ [][NextMonitor]_vars

(***************************************************************************)
(* C1: on one SimpleVideoMonitor, starting empty, after any sequence of    *)
(* calls no identity is both in video_queue and in processed_videos, and   *)
(* no identity occurs more than once in video_queue.                       *)
(***************************************************************************)
C1_QueueDisjointNoDuplicates ==
  /\ PathsOf(video_queue[M]) \cap processed_videos[M] = {}
  /\ \A p \in Paths : Occurrences(video_queue[M], p) <= 1

\* a rejected enqueue has just happened with both structures non-empty
C1_Witness ==
  /\ last.op = "add_video_to_queue"
  /\ last.arg \in processed_videos[M]
  /\ video_queue[M] # <<>>
  /\ last.prev = "mark_video_failed"

(***************************************************************************)
(* C3: add_video_to_queue(x) leaves the queue unchanged when x is already  *)
(* in processed_videos or already has an entry in video_queue; called      *)
(* twice in succession for the same x it leaves exactly one entry for x.   *)
(***************************************************************************)
C3_EnqueueKnownIsNoOp ==
  last.op = "add_video_to_queue" =>
    /\ (last.arg \in last.pre_processed \/ last.arg \in PathsOf(last.pre_queue))
         => video_queue[M] = last.pre_queue
    /\ (last.prev = "add_video_to_queue" /\ last.prev_arg = last.arg
        /\ last.arg \notin processed_videos[M])
         => /\ Occurrences(video_queue[M], last.arg) = 1
            /\ video_queue[M] = last.pre_queue

\* the same identity was enqueued twice in succession, next to another entry
C3_Witness ==
  /\ last.op = "add_video_to_queue"
  /\ last.prev = "add_video_to_queue"
  /\ last.prev_arg = last.arg
  /\ last.arg \in PathsOf(video_queue[M])
  /\ Len(video_queue[M]) = 2

C4_EmptyCaseReached ==
  /\ last.op = "get_next_video"
  /\ last.pre_queue = <<>>
  /\ last.pre_queue_file.exists

(***************************************************************************)
(* C7: a discovery run (monitor_once or initialize_from_existing) that     *)
(* directly follows another discovery run on the unchanged catalog appends *)
(* no queue entry and reports that nothing new was found (new_count = 0).  *)
(***************************************************************************)
C7_SecondDiscoveryFindsNothing ==
  (/\ last.op \in {"monitor_once", "initialize_from_existing"}
   /\ last.prev \in {"monitor_once", "initialize_from_existing"})
    => /\ video_queue[M] = last.pre_queue
       /\ last.ret_count = 0

\* the part of C7 the code keeps: the second run appends nothing, and a
\* second monitor_once reports 0
C7_SecondDiscoveryAppendsNothing ==
  (/\ last.op \in {"monitor_once", "initialize_from_existing"}
   /\ last.prev \in {"monitor_once", "initialize_from_existing"})
    => /\ video_queue[M] = last.pre_queue
       /\ last.op = "monitor_once" => last.ret_count = 0

(***************************************************************************)
(* SimpleVideoWorker.run_worker (tools/simple_processor.py main): the      *)
(* worker alone, on the queue and state files an earlier run left.         *)
(***************************************************************************)
\* the files a run of this program can leave: a duplicate-free queue and a
\* processed list disjoint from it
LeftFiles ==
  UNION {{[queue |-> [i \in 1..Cardinality(Q) |->
                        [path |-> s[i], size |-> SizeOf(s[i]),
                         status |-> "pending", priority |-> 1]],
           processed |-> P] : s \in Perms(Q), P \in SUBSET (Paths \ Q)} :
         Q \in SUBSET Paths}

InitWorker ==
  /\ repo = Paths
  /\ \E f \in LeftFiles :
       /\ f.queue # <<>>
       /\ queue_file = [exists |-> TRUE, queue |-> f.queue, readable |-> TRUE]
       /\ state_file = [exists |-> TRUE, processed_videos |-> f.processed]
  /\ processed_videos = [m \in Monitors |-> load_state(state_file)]
  /\ video_queue = [m \in Monitors |-> load_queue(queue_file)]
  /\ last = [op |-> "init", arg |-> "", ret_item |-> None, ret_count |-> 0,
             prev |-> "", prev_arg |-> "", pre_queue |-> <<>>, pre_processed |-> {},
             pre_queue_file |-> [exists |-> FALSE, queue |-> <<>>, readable |-> TRUE]]
  /\ WorkerIdle
  /\ FolderIdle
  /\ AuxIdle

RunWorkerDequeue == WorkerDequeue("worker") /\ UNCHANGED <<repo, last, fldVars, auxVars>>
RunWorkerDownload == StageDownload /\ UNCHANGED <<repo, last, fldVars, auxVars>>
RunWorkerConvert == StageConvert /\ UNCHANGED <<repo, last, fldVars, auxVars>>
RunWorkerUpload == StageUpload /\ UNCHANGED <<repo, last, fldVars, auxVars>>
RunWorkerMark == StageMark /\ UNCHANGED <<repo, last, fldVars, auxVars>>
RunWorkerCleanup == StageCleanup /\ UNCHANGED <<repo, last, fldVars, auxVars>>
RunWorkerOutcome == RunWorkerRecord /\ UNCHANGED <<repo, last, fldVars, auxVars>>

NextWorker ==
  \/ RunWorkerDequeue
  \/ RunWorkerDownload
  \/ RunWorkerConvert
  \/ RunWorkerUpload
  \/ RunWorkerMark
  \/ RunWorkerCleanup
  \/ RunWorkerOutcome

SpecWorker == InitWorker /\ [][NextWorker]_vars

(***************************************************************************)
(* C10: if the fetch stage fails (remote file missing, download error or   *)
(* exception), transform and publish are never invoked in that run,        *)
(* process_single_video returns false, and run_worker records the item as  *)
(* failed (mark_video_failed: in processed_videos, out of the queue).      *)
(***************************************************************************)
FetchFailures == {"missing", "error", "exception"}

C10_FetchFailureStopsRun ==
  /\ download_result \in FetchFailures
       => /\ calls = <<"download">>
          /\ pc \in {"finally", "returned"}
          /\ ~success
  /\ last_run.download \in FetchFailures
       => /\ last_run.calls = <<"download">>
          /\ ~last_run.success
          /\ last_run.recorded = "mark_video_failed"
          /\ last_run.path \in processed_videos["worker"]
          /\ last_run.path \notin PathsOf(video_queue["worker"])

\* a run whose download failed has been recorded, and the loop has gone on
\* to the next entry
C10_Witness ==
  /\ last_run.download = "missing"
  /\ last_run.recorded = "mark_video_failed"
  /\ pc = "convert"

(***************************************************************************)
(* C11: when process_single_video has returned, whichever stage failed, no *)
(* temporary file made for the item is left in the worker's temp_dir:      *)
(* working copy, partial download, output and partial output are gone.     *)
(***************************************************************************)
C11_NoTempArtifactRemains ==
  pc = "returned" => temp_files = {}

\* what the finally block does remove: the files whose paths the stages
\* returned, the working copy and the finished output
C11_ReturnedPathsRemoved ==
  pc = "returned" => temp_files \cap {"input", "output"} = {}

(***************************************************************************)
(* SimpleVideoSystem (simple_run.py): the discovery loop (monitor_worker)  *)
(* and the processing loop (worker_runner) run as two threads on           *)
(* system.monitor; the pipeline belongs to system.worker, whose            *)
(* SimpleVideoWorker.__init__ built a SimpleVideoMonitor of its own from   *)
(* the same two files.                                                     *)
(***************************************************************************)
InitSystem ==
  /\ repo = {}
  /\ \E f \in LeftFiles :
       /\ queue_file = [exists |-> TRUE, queue |-> f.queue, readable |-> TRUE]
       /\ state_file = [exists |-> TRUE, processed_videos |-> f.processed]
  /\ processed_videos = [m \in Monitors |-> load_state(state_file)]
  /\ video_queue = [m \in Monitors |-> load_queue(queue_file)]
  /\ last = [op |-> "init", arg |-> "", ret_item |-> None, ret_count |-> 0,
             prev |-> "", prev_arg |-> "", pre_queue |-> <<>>, pre_processed |-> {},
             pre_queue_file |-> [exists |-> FALSE, queue |-> <<>>, readable |-> TRUE]]
  /\ WorkerIdle
  /\ FolderIdle
  /\ AuxIdle

SystemRepoUpload ==
  \E p \in Paths \ repo :
    /\ repo' = repo \cup {p}
    /\ UNCHANGED <<monVars, wrkVars, last, fldVars, auxVars>>

\* monitor_worker, lines 74-85: one discovery cycle
SystemDiscovery ==
  \E current_videos \in repo_listing, n \in 0..Cardinality(Paths) :
    /\ Len(video_queue["system"]) < MaxQueue
    /\ monitor_once("system", current_videos, n)
    /\ UNCHANGED <<repo, wrkVars, last, fldVars, auxVars>>

\* worker_runner, lines 98-124
SystemDequeue == WorkerDequeue("system") /\ UNCHANGED <<repo, last, fldVars, auxVars>>
SystemDownload == StageDownload /\ UNCHANGED <<repo, last, fldVars, auxVars>>
SystemConvert == StageConvert /\ UNCHANGED <<repo, last, fldVars, auxVars>>
SystemUpload == StageUpload /\ UNCHANGED <<repo, last, fldVars, auxVars>>
SystemMark == StageMark /\ UNCHANGED <<repo, last, fldVars, auxVars>>
SystemCleanup == StageCleanup /\ UNCHANGED <<repo, last, fldVars, auxVars>>
SystemOutcome == WorkerRunnerRecord /\ UNCHANGED <<repo, last, fldVars, auxVars>>

NextSystem ==
  \/ SystemRepoUpload
  \/ SystemDiscovery
  \/ SystemDequeue
  \/ SystemDownload
  \/ SystemConvert
  \/ SystemUpload
  \/ SystemMark
  \/ SystemCleanup
  \/ SystemOutcome

SpecSystem == InitSystem /\ [][NextSystem]_vars

(***************************************************************************)
(* C2: in SimpleVideoSystem, once the pipeline run for identity x has      *)
(* finished (successfully or not) and the processing loop has handled its  *)
(* outcome, x is never reprocessed: x is never in the live queue again and *)
(* the processing loop never has x in flight again.                        *)
(***************************************************************************)
C2_FinishedNeverReprocessed ==
  \A x \in finished :
    /\ x \notin PathsOf(video_queue["system"])
    /\ next_video.path # x

\* what the code does keep: a run that failed is never taken up again
C2_FailedNeverReprocessed ==
  \A x \in finished :
    x \in processed_videos["system"]
      => /\ x \notin PathsOf(video_queue["system"])
         /\ next_video.path # x

(***************************************************************************)
(* The folder queue in initialization mode (--init): every folder found is *)
(* enqueued at once; a QueueProcessor works on the same queue file.        *)
(***************************************************************************)
simpleIdle ==
  /\ repo = {}
  /\ processed_videos = [m \in Monitors |-> {}]
  /\ video_queue = [m \in Monitors |-> <<>>]
  /\ state_file = [exists |-> FALSE, processed_videos |-> {}]
  /\ queue_file = [exists |-> FALSE, queue |-> <<>>, readable |-> TRUE]
  /\ last = [op |-> "init", arg |-> "", ret_item |-> None, ret_count |-> 0,
             prev |-> "", prev_arg |-> "", pre_queue |-> <<>>, pre_processed |-> {},
             pre_queue_file |-> [exists |-> FALSE, queue |-> <<>>, readable |-> TRUE]]
  /\ WorkerIdle

InitFolderOrder ==
  /\ simpleIdle
  /\ catalog \in {{"wide30g", "s10m", "mid6g", "s20m"}, {"s10m", "s20m", "big5g"}}
  /\ FolderStart
  /\ AuxIdle

OrderUpload == FolderUpload /\ UNCHANGED <<simpleVars, auxVars>>
OrderDetect == MonitorDetect(TRUE) /\ UNCHANGED <<simpleVars, auxVars>>
OrderListingFails == MonitorListingFails /\ UNCHANGED <<simpleVars, auxVars>>
OrderAdd == MonitorAdd /\ UNCHANGED <<simpleVars, auxVars>>
OrderFinish == MonitorFinish /\ UNCHANGED <<simpleVars, auxVars>>
OrderPoll == ProcessorPoll /\ UNCHANGED <<simpleVars, auxVars>>
OrderCount == ProcessorCount /\ UNCHANGED <<simpleVars, auxVars>>
OrderSpace == ProcessorSpace /\ UNCHANGED <<simpleVars, auxVars>>
OrderMark == ProcessorMark /\ UNCHANGED <<simpleVars, auxVars>>
OrderWork == ProcessorWork /\ UNCHANGED <<simpleVars, auxVars>>

NextFolderOrder ==
  \/ OrderUpload
  \/ OrderDetect
  \/ OrderListingFails
  \/ OrderAdd
  \/ OrderFinish
  \/ OrderPoll
  \/ OrderCount
  \/ OrderSpace
  \/ OrderMark
  \/ OrderWork

SpecFolderOrder == InitFolderOrder /\ [][NextFolderOrder]_vars

\* entry a is served before entry b: lower priority value, then earlier insertion
Before(a, b) ==
  \/ a.priority < b.priority
  \/ a.priority = b.priority /\ a.added_time <= b.added_time

\* the number of entries the queue holds for folder f
Entries(queue, f) == Cardinality({i \in 1..Len(queue) : queue[i].folder = f})

AddedTime(queue, f) ==
  LET i == CHOOSE j \in 1..Len(queue) : queue[j].folder = f IN queue[i].added_time

(***************************************************************************)
(* C5: the folder queue serves pending entries in ascending priority and,  *)
(* among equal priorities, in insertion order: the entry the               *)
(* QueueProcessor takes is the first of all pending entries by (priority,  *)
(* added_time), after any sequence of enqueues and status changes; so      *)
(* folders enqueued with priorities [3,1,2,1] and then taken one after the *)
(* other are served first 1, second 1, 2, 3.                               *)
(***************************************************************************)
C5_ServedByPriorityThenInsertion ==
  /\ \A i, j \in 1..Len(processing_queue_file) :
       i <= j => Before(processing_queue_file[i], processing_queue_file[j])
  /\ qpc = "space"
       => /\ item_to_process = pending_items[1].folder
          /\ \A j \in 1..Len(pending_items) : Before(pending_items[1], pending_items[j])
  /\ \A k \in 1..Len(served) : served[k] = processing_queue[k].folder
  /\ \A i, j \in 1..Len(processing_queue) :
       i <= j => Before(processing_queue[i], processing_queue[j])

\* enqueued in the order 3, 1, 2, 1 and then served 1, 1, 2, 3
C5_Witness ==
  /\ Len(processing_queue) = 4
  /\ AddedTime(processing_queue, "wide30g") < AddedTime(processing_queue, "s10m")
  /\ AddedTime(processing_queue, "s10m") < AddedTime(processing_queue, "mid6g")
  /\ AddedTime(processing_queue, "mid6g") < AddedTime(processing_queue, "s20m")
  /\ served = <<"s10m", "s20m", "mid6g", "wide30g">>

(***************************************************************************)
(* C6 as the specification states it: folders of 10 MB, 20 MB and 5 GB get *)
(* the priorities 1, 1 and 3, and the first two folders served are the two *)
(* small ones.                                                             *)
(***************************************************************************)
C6_SizesGetPriorities113 ==
  /\ \A i \in 1..Len(processing_queue) :
       LET e == processing_queue[i]
       IN /\ e.folder \in {"s10m", "s20m"} => e.priority = 1
          /\ e.folder = "big5g" => e.priority = 3
  /\ (catalog = {"s10m", "s20m", "big5g"} /\ Len(served) >= 2)
       => {served[1], served[2]} = {"s10m", "s20m"}

(***************************************************************************)
(* C6, amended: with the default thresholds the folders of 10 MB, 20 MB    *)
(* and 5 GB (one file each) all get priority 1, because 5 GB is within the *)
(* small bound of 5 GB; a folder is given 2 only above 5 GB and 3 only     *)
(* above 20 GB.  The three are therefore served in the order they were     *)
(* enqueued, wherever the 5 GB folder stands in that order.                *)
(***************************************************************************)
C6_ThreeSizesAllPriorityOne ==
  /\ \A i \in 1..Len(processing_queue) :
       LET e == processing_queue[i]
       IN /\ e.total_size \in {10, 20, 5 * MBPerGB} => e.priority = 1
          /\ e.total_size = 6 * MBPerGB => e.priority = 2
          /\ e.total_size = 30 * MBPerGB => e.priority = 3
  /\ catalog = {"s10m", "s20m", "big5g"}
       => /\ \A i, j \in 1..Len(processing_queue) :
               i < j => processing_queue[i].added_time < processing_queue[j].added_time
          /\ \A k \in 1..Len(served) : served[k] = processing_queue[k].folder

\* the 5 GB folder was enqueued first and served first, before the small ones
C6_Witness ==
  /\ catalog = {"s10m", "s20m", "big5g"}
  /\ served = <<"big5g", "s10m", "s20m">>
  /\ AddedTime(processing_queue, "big5g") < AddedTime(processing_queue, "s10m")
  /\ AddedTime(processing_queue, "s10m") < AddedTime(processing_queue, "s20m")

(***************************************************************************)
(* The folder queue in normal mode (run_monitor): folders are uploaded and *)
(* changed while the monitor checks them, time passes, and a               *)
(* QueueProcessor works on the same queue file.                            *)
(***************************************************************************)
InitFolderStability ==
  /\ simpleIdle
  /\ catalog = {"s10m", "mid6g"}
  /\ FolderStart
  /\ AuxIdle

StabilityUpload == FolderUpload /\ UNCHANGED <<simpleVars, auxVars>>
StabilityChange == FolderChange /\ UNCHANGED <<simpleVars, auxVars>>
StabilityTick == Tick /\ UNCHANGED <<simpleVars, auxVars>>
StabilityDetect == MonitorDetect(FALSE) /\ UNCHANGED <<simpleVars, auxVars>>
StabilityListingFails == MonitorListingFails /\ UNCHANGED <<simpleVars, auxVars>>
StabilityAdd == MonitorAdd /\ UNCHANGED <<simpleVars, auxVars>>
StabilityFinish == MonitorFinish /\ UNCHANGED <<simpleVars, auxVars>>
StabilityPoll == ProcessorPoll /\ UNCHANGED <<simpleVars, auxVars>>
StabilityCount == ProcessorCount /\ UNCHANGED <<simpleVars, auxVars>>
StabilitySpace == ProcessorSpace /\ UNCHANGED <<simpleVars, auxVars>>
StabilityMark == ProcessorMark /\ UNCHANGED <<simpleVars, auxVars>>
StabilityWork == ProcessorWork /\ UNCHANGED <<simpleVars, auxVars>>

NextFolderStability ==
  \/ StabilityUpload
  \/ StabilityChange
  \/ StabilityTick
  \/ StabilityDetect
  \/ StabilityListingFails
  \/ StabilityAdd
  \/ StabilityFinish
  \/ StabilityPoll
  \/ StabilityCount
  \/ StabilitySpace
  \/ StabilityMark
  \/ StabilityWork

SpecFolderStability == InitFolderStability /\ [][NextFolderStability]_vars

\* the step of monitor_once in which detect_completed_folders runs
CheckStep == mpc = "idle" /\ mpc' = "adding"

\* the hash detect_completed_folders computes for f in this check
HashNow(f) == calculate_folder_hash(FolderInfo(f, repo_version[f]))

(***************************************************************************)
(* C8: in normal mode a folder is enqueued only at a check where its hash  *)
(* equals the hash an earlier check recorded and at least                  *)
(* min_folder_stable_time has passed since that hash was recorded; a check *)
(* that sees a changed hash records the new hash with the time of the      *)
(* check and does not enqueue the folder.  So every queue entry stands for *)
(* a recorded hash that is at least min_folder_stable_time old.            *)
(***************************************************************************)
C8_Step ==
  /\ (CheckStep /\ ~force_all') =>
       \A f \in Present :
         /\ (\E k \in 1..Len(completed_folders') : completed_folders'[k] = f)
              => /\ f \in DOMAIN last_state.folders
                 /\ HashNow(f) = last_state.folders[f].hash
                 /\ now - last_state.folders[f].last_check_time >= min_folder_stable_time
                 /\ last_state'.folders[f] = last_state.folders[f]
         /\ (~already_queued(processing_queue, f)
             /\ HashNow(f) # LastHash(last_state.folders, f))
              => /\ \A k \in 1..Len(completed_folders') : completed_folders'[k] # f
                 /\ last_state'.folders[f].hash = HashNow(f)
                 /\ last_state'.folders[f].last_check_time = now
  /\ \A i \in 1..Len(processing_queue') :
       LET e == processing_queue'[i]
       IN /\ e.folder \in DOMAIN last_state'.folders
          /\ last_state'.folders[e.folder].total_size = e.total_size
          /\ now' - last_state'.folders[e.folder].last_check_time >= min_folder_stable_time

C8_StabilityGate == [][C8_Step]_vars

\* a folder changed after its first check, the timer was reset at the second
\* check, and it was enqueued two intervals later with the changed content
C8_Witness ==
  /\ already_queued(processing_queue, "s10m")
  /\ "s10m" \in DOMAIN last_state.folders
  /\ last_state.folders["s10m"].last_check_time = monitor_interval
  /\ last_state.folders["s10m"].file_count = 2
  /\ "mid6g" \in DOMAIN last_state.folders
  /\ ~already_queued(processing_queue, "mid6g")

(***************************************************************************)
(* C9: a folder whose hash stays unchanged is enqueued exactly once: the   *)
(* first check at which the recorded hash is still the folder's hash and   *)
(* the dwell time has elapsed selects it, add_to_queue then gives it one   *)
(* entry, and no later check selects it again, whatever the status of its  *)
(* entry in the queue file; the queue never holds two entries of a folder. *)
(***************************************************************************)
C9_Step ==
  /\ CheckStep =>
       \A f \in Present :
         LET selected == \E k \in 1..Len(completed_folders') : completed_folders'[k] = f
         IN /\ already_queued(processing_queue, f) => ~selected
            /\ (/\ ~already_queued(processing_queue, f)
                /\ HashNow(f) = LastHash(last_state.folders, f)
                /\ now - LastCheckTime(last_state.folders, f) >= min_folder_stable_time)
                 => selected
  /\ \A f \in Folders :
       /\ Entries(processing_queue', f) <= 1
       /\ Entries(processing_queue_file', f) <= 1
       /\ (mpc = "adding" /\ completed_folders # <<>> /\ Head(completed_folders) = f
           /\ completed_folders' = Tail(completed_folders))
            => Entries(processing_queue', f) = 1

C9_EnqueuedExactlyOnce == [][C9_Step]_vars

\* a check has just run over a folder that is still stable and whose entry
\* the processor has completed, next to an entry it has failed
C9_Witness ==
  /\ mpc = "adding"
  /\ completed_folders = <<>>
  /\ Len(processing_queue_file) = 2
  /\ \E i, j \in 1..2 :
       /\ processing_queue_file[i].status = "completed"
       /\ processing_queue_file[j].status = "failed"
  /\ current_time = MaxTicks * monitor_interval

(***************************************************************************)
(* The disk-space gate under arbitrary free space and arbitrary calls.     *)
(***************************************************************************)
InitDiskGate ==
  /\ simpleIdle
  /\ FolderIdle
  /\ disk_free \in FreeSpaces
  /\ disk_call = NoDiskCall
  /\ RtIdle
  /\ RunIdle
  /\ ApIdle
  /\ ExtIdle

NextDiskGate ==
  \/ DiskUsageChanges
  \/ CallCheckFreeSpace
  \/ CallDownloadVideoToLocal

SpecDiskGate == InitDiskGate /\ [][NextDiskGate]_vars

(***************************************************************************)
(* C12: check_free_space(path, G) is true exactly when the free space is   *)
(* at least G GB (false with G - 1 GB free), and download_video_to_local   *)
(* returns failure without invoking the copy from the NAS whenever the     *)
(* free space is below the remote file size plus the 1 GB margin.          *)
(***************************************************************************)
C12_DiskSpaceGate ==
  /\ disk_call.op = "check_free_space"
       => /\ disk_call.result = (disk_call.free >= disk_call.min_gb)
          /\ disk_call.free = disk_call.min_gb - MBPerGB => ~disk_call.result
  /\ (/\ disk_call.op = "download_video_to_local"
      /\ disk_call.free < disk_call.remote_size + SafetyMarginGB * MBPerGB)
       => /\ disk_call.ret = "None"
          /\ ~disk_call.copy_invoked

\* what the code keeps: check_free_space as stated, and the gate of the
\* download on the size get_file_size reported, when there is no local copy
C12_GateOnReportedSize ==
  /\ disk_call.op = "check_free_space"
       => /\ disk_call.result = (disk_call.free >= disk_call.min_gb)
          /\ disk_call.free = disk_call.min_gb - MBPerGB => ~disk_call.result
  /\ (/\ disk_call.op = "download_video_to_local"
      /\ disk_call.free < disk_call.file_size + SafetyMarginGB * MBPerGB)
       => ~disk_call.copy_invoked
  /\ (/\ disk_call.op = "download_video_to_local"
      /\ disk_call.copy_invoked)
       => /\ ~disk_call.local_exists
          /\ disk_call.free >= disk_call.file_size + SafetyMarginGB * MBPerGB

\* the copy was invoked with less free space than the remote file needs
C12_CopyWithoutSpace ==
  /\ disk_call.op = "download_video_to_local"
  /\ disk_call.copy_invoked
  /\ disk_call.free < disk_call.remote_size

(***************************************************************************)
(* C13: every mutating operation of the queue manager persists before it   *)
(* returns: after add_video_to_queue, get_next_video, mark_video_processed *)
(* or mark_video_failed the queue file holds the in-memory queue and the   *)
(* state file holds the in-memory processed set.                           *)
(***************************************************************************)
MutatingOps ==
  {"add_video_to_queue", "get_next_video", "mark_video_processed", "mark_video_failed"}

C13_MutationsPersisted ==
  last.op \in MutatingOps
    => /\ load_queue(queue_file) = video_queue[M]
       /\ load_state(state_file) = processed_videos[M]

\* what the code keeps: a dequeue that removed an entry has written the
\* queue, a mark has written the processed set, and the processed set in
\* the file is always the one in memory
C13_DequeueAndMarkPersisted ==
  /\ (last.op = "get_next_video" /\ last.ret_item # None)
       => load_queue(queue_file) = video_queue[M]
  /\ last.op \in {"mark_video_processed", "mark_video_failed"}
       => /\ state_file.exists
          /\ state_file.processed_videos = processed_videos[M]
  /\ load_state(state_file) = processed_videos[M]

\* add_video_to_queue has returned with a new entry that is in no file
C13_UnsavedEnqueue ==
  /\ last.op = "add_video_to_queue"
  /\ last.arg \in PathsOf(video_queue[M])
  /\ last.arg \notin PathsOf(load_queue(queue_file))

(***************************************************************************)
(* C14: while SimpleVideoSystem runs, the processed list in the state file *)
(* is append-only: every identity one write of the file contains is in     *)
(* every later write, for every interleaving of successful and failed      *)
(* items.                                                                  *)
(***************************************************************************)
C14_ProcessedFileAppendOnly ==
  [][load_state(state_file) \subseteq load_state(state_file')]_vars

\* what the code keeps: each monitor's in-memory set only grows
C14_ProcessedMemoryAppendOnly ==
  [][\A m \in Monitors : processed_videos[m] \subseteq processed_videos'[m]]_vars

\* the file has lost an identity whose run was handled
C14_FinishedLostFromFile ==
  \E x \in finished : x \notin load_state(state_file) /\ state_file.exists
                       /\ x \in processed_videos["worker"]

(***************************************************************************)
(* Saving and loading: one instance saves its queue, processed set and     *)
(* progress record, a new instance loads the files.                        *)
(***************************************************************************)
InitRoundTrip ==
  /\ simpleIdle
  /\ FolderIdle
  /\ DiskIdle
  /\ RunIdle
  /\ ApIdle
  /\ ExtIdle
  /\ \E queue \in MonitorQueues, processed \in SUBSET Paths, data \in ProgressRecords :
       /\ PathsOf(queue) \cap processed = {}
       /\ rt_memory = [queue |-> queue, processed |-> processed, progress |-> data]
  /\ rt_files = NoFiles
  /\ rt_loaded = NotLoaded

NextRoundTrip ==
  \/ RtSave
  \/ RtLoad

SpecRoundTrip == InitRoundTrip /\ [][NextRoundTrip]_vars

(***************************************************************************)
(* C15: saving the queue and the processed set and loading them in a new   *)
(* instance yields the same entries in the same order with the same        *)
(* statuses and the same set of processed identities; load_progress of     *)
(* what save_progress wrote is a record equal to the one saved.            *)
(***************************************************************************)
C15_RoundTrip ==
  rt_loaded.loaded
    => /\ rt_loaded.queue = rt_memory.queue
       /\ rt_loaded.processed = rt_memory.processed
       /\ DOMAIN rt_loaded.progress = DOMAIN rt_memory.progress
       /\ \A k \in DOMAIN rt_memory.progress :
            rt_loaded.progress[k] = rt_memory.progress[k]

\* a queue of two entries, a processed identity, and a progress record with
\* both lists were saved and loaded
C15_Witness ==
  /\ rt_loaded.loaded
  /\ Len(rt_loaded.queue) = 2
  /\ Cardinality(rt_loaded.processed) = 1
  /\ DOMAIN rt_loaded.progress = ProgressKeys
  /\ rt_loaded.progress["completed_series"] = <<"ep02", "ep01">>

(***************************************************************************)
(* Discovery cycles (monitor_once) of one SimpleVideoMonitor whose catalog *)
(* listing can fail: get_all_videos_from_repo with all its outcomes.       *)
(***************************************************************************)
InitDiscovery == InitMonitor

DiscoveryUpload == RepoUpload

DiscoveryMonitorOnce ==
  \E outcome \in ListingOutcomes, filelist_exists \in BOOLEAN :
    \E current_videos \in get_all_videos_from_repo(outcome, filelist_exists) :
     \E n \in {monitor_scan(current_videos, video_queue[M], processed_videos[M],
                             0).new_count} :
      /\ monitor_once(M, current_videos, n)
      /\ last' = Call("monitor_once", outcome, None, n)
      /\ UNCHANGED <<repo, wrkVars, fldVars, auxVars>>

\* the head of the queue is taken and recorded as processed
DiscoveryProcessHead ==
  /\ video_queue[M] # <<>>
  /\ mark_video_processed(M, video_queue[M][1].path)
  /\ last' = Call("mark_video_processed", video_queue[M][1].path, None, 0)
  /\ UNCHANGED <<repo, wrkVars, fldVars, auxVars>>

NextDiscovery ==
  \/ DiscoveryUpload
  \/ DiscoveryMonitorOnce
  \/ DiscoveryProcessHead

SpecDiscovery == InitDiscovery /\ [][NextDiscovery]_vars

(***************************************************************************)
(* C16: if the catalog listing fails (the tool exits non-zero, times out   *)
(* or raises), the discovery run returns zero new items and leaves the     *)
(* queue unchanged; the queue only grows in a cycle whose listing          *)
(* succeeded.                                                              *)
(***************************************************************************)
C16_FailedListingAddsNothing ==
  (/\ last.op = "monitor_once"
   /\ last.arg \in {"nonzero", "exception"})
    => /\ last.ret_count = 0
       /\ video_queue[M] = last.pre_queue

\* a monitor_once whose listing tool exited non-zero has put the five
\* hard-coded videos into an empty queue and returned 5
C16_ExpectedVideosEnqueued ==
  /\ last.op = "monitor_once"
  /\ last.arg = "nonzero"
  /\ last.pre_queue = <<>>
  /\ last.ret_count = 5
  /\ Len(video_queue[M]) = 5

(***************************************************************************)
(* SimpleVideoSystem killed and started again: the process can stop at any *)
(* point of the processing loop; the next run builds both monitors anew    *)
(* from the two files (SimpleVideoMonitor.__init__), and the loops start   *)
(* over.  The repository lists every video throughout; the first run finds *)
(* no files.                                                               *)
(***************************************************************************)
MaxCrashes == 1

InitCrash ==
  /\ repo = Paths
  /\ queue_file = [exists |-> FALSE, queue |-> <<>>, readable |-> TRUE]
  /\ state_file = [exists |-> FALSE, processed_videos |-> {}]
  /\ processed_videos = [m \in Monitors |-> load_state(state_file)]
  /\ video_queue = [m \in Monitors |-> load_queue(queue_file)]
  /\ last = [op |-> "init", arg |-> "", ret_item |-> None, ret_count |-> 0,
             prev |-> "", prev_arg |-> "", pre_queue |-> <<>>, pre_processed |-> {},
             pre_queue_file |-> [exists |-> FALSE, queue |-> <<>>, readable |-> TRUE]]
  /\ WorkerIdle
  /\ FolderIdle
  /\ AuxIdle

\* the entry in flight has no outcome recorded: process_single_video has not
\* reached mark_video_processed, the loop has not marked the failure, and no
\* earlier run of the same identity was recorded
Unrecorded ==
  /\ next_video # None
  /\ ~success
  /\ next_video.path \notin finished

\* the process is killed; __init__ of the next run: load_state, load_queue
KillAndRestart ==
  /\ crashed.count < MaxCrashes
  /\ crashed' = IF Unrecorded
                THEN [path |-> next_video.path, state |-> "stopped",
                      count |-> crashed.count + 1]
                ELSE [crashed EXCEPT !.count = @ + 1]
  /\ processed_videos' = [m \in Monitors |-> load_state(state_file)]
  /\ video_queue' = [m \in Monitors |-> load_queue(queue_file)]
  /\ pc' = "loop"
  /\ next_video' = None
  /\ local_input_path' = FALSE
  /\ local_output_path' = FALSE
  /\ download_result' = ""
  /\ upload_result' = ""
  /\ calls' = <<>>
  /\ success' = FALSE
  /\ temp_files' = {}
  /\ finished' = IF next_video # None /\ success
                 THEN finished \cup {next_video.path} ELSE finished
  /\ UNCHANGED <<repo, state_file, queue_file, last, last_run, fldVars, diskVars,
                 rtVars, started, apVars, extVars>>

\* monitor_worker: one discovery cycle on a listing that succeeded
CrashDiscovery ==
  \E current_videos \in repo_listing :
    \E n \in {monitor_scan(current_videos, video_queue["system"],
                           processed_videos["system"], 0).new_count} :
      /\ monitor_once("system", current_videos, n)
      /\ UNCHANGED <<repo, wrkVars, last, fldVars, auxVars>>

\* worker_runner takes the next entry
CrashDequeue ==
  /\ WorkerDequeue("system")
  /\ crashed' = IF crashed.state = "stopped" /\ next_video'.path = crashed.path
                THEN [crashed EXCEPT !.state = "retried"] ELSE crashed
  /\ UNCHANGED <<repo, last, fldVars, diskVars, rtVars, started, apVars, extVars>>

CrashDownload == StageDownload /\ UNCHANGED <<repo, last, fldVars, auxVars>>
CrashConvert == StageConvert /\ UNCHANGED <<repo, last, fldVars, auxVars>>
CrashUpload == StageUpload /\ UNCHANGED <<repo, last, fldVars, auxVars>>
CrashMark == StageMark /\ UNCHANGED <<repo, last, fldVars, auxVars>>
CrashCleanup == StageCleanup /\ UNCHANGED <<repo, last, fldVars, auxVars>>
CrashOutcome == WorkerRunnerRecord /\ UNCHANGED <<repo, last, fldVars, auxVars>>

NextCrash ==
  \/ KillAndRestart
  \/ CrashDiscovery
  \/ CrashDequeue
  \/ CrashDownload
  \/ CrashConvert
  \/ CrashUpload
  \/ CrashMark
  \/ CrashCleanup
  \/ CrashOutcome

SpecCrash == InitCrash /\ [][NextCrash]_vars

(***************************************************************************)
(* C17: if the process stops after an entry was dequeued and before an     *)
(* outcome was recorded for it, the entry is not lost.  In the next run it *)
(* is not in the processed set; a discovery cycle whose listing holds it   *)
(* puts it in the queue again; and when the loop takes it again, the       *)
(* pipeline starts over at the download with nothing kept from the run     *)
(* that was cut short.                                                     *)
(***************************************************************************)
C17_Step ==
  /\ crashed'.state = "stopped"
       => \/ crashed'.path \in PathsOf(video_queue'["system"])
          \/ crashed'.path \notin processed_videos'["system"]
  /\ (crashed.state = "stopped" /\ crashed.path \in repo /\ CrashDiscovery)
       => crashed.path \in PathsOf(video_queue'["system"])
  /\ (crashed.state = "stopped" /\ crashed'.state = "retried")
       => /\ next_video'.path = crashed.path
          /\ pc' = "download"
          /\ calls' = <<>>
          /\ ~local_input_path'
          /\ ~local_output_path'

C17_CrashedItemRetried == [][C17_Step]_vars

\* the process was killed during the conversion of an entry; the next run
\* found the entry again and has it at the download stage
C17_Witness ==
  /\ crashed.state = "retried"
  /\ next_video.path = crashed.path
  /\ pc = "download"

(***************************************************************************)
(* A SimpleVideoMonitor is constructed on the files an earlier run left,   *)
(* the queue file possibly cut short or overwritten so that json.load      *)
(* raises; discovery cycles follow.                                        *)
(***************************************************************************)
InitStartup ==
  /\ repo = {}
  /\ \E f \in LeftFiles, readable \in BOOLEAN :
       /\ queue_file = [exists |-> TRUE, queue |-> f.queue, readable |-> readable]
       /\ state_file = [exists |-> TRUE, processed_videos |-> f.processed]
  /\ processed_videos = [m \in Monitors |-> {}]
  /\ video_queue = [m \in Monitors |-> <<>>]
  /\ last = [op |-> "init", arg |-> "", ret_item |-> None, ret_count |-> 0,
             prev |-> "", prev_arg |-> "", pre_queue |-> <<>>, pre_processed |-> {},
             pre_queue_file |-> [exists |-> FALSE, queue |-> <<>>, readable |-> TRUE]]
  /\ WorkerIdle
  /\ FolderIdle
  /\ AuxIdle

\* __init__, lines 45-47: load_state() and load_queue(); neither raises
StartupLoad ==
  /\ ~started.done
  /\ processed_videos' = [processed_videos EXCEPT ![M] = load_state(state_file)]
  /\ video_queue' = [video_queue EXCEPT ![M] = load_queue(queue_file)]
  /\ started' = [done |-> TRUE, unreadable |-> ~queue_file.readable,
                 processed |-> load_state(state_file)]
  /\ last' = Call("__init__", "", None, 0)
  /\ UNCHANGED <<repo, state_file, queue_file, wrkVars, fldVars, diskVars, rtVars,
                 crashed, apVars, extVars>>

StartupUpload == RepoUpload

\* a discovery cycle of the constructed monitor
StartupMonitorOnce ==
  /\ started.done
  /\ DiscoveryMonitorOnce

NextStartup ==
  \/ StartupLoad
  \/ StartupUpload
  \/ StartupMonitorOnce

SpecStartup == InitStartup /\ [][NextStartup]_vars

(***************************************************************************)
(* C18: if the queue file cannot be read at startup, the monitor starts    *)
(* with an empty queue (and the processed set of the state file) instead   *)
(* of failing; no identity of that processed set is enqueued by the        *)
(* discovery cycles that follow, and after a cycle whose listing succeeded *)
(* every other video of the repository is in the queue.                    *)
(***************************************************************************)
C18_UnreadableQueueFile ==
  (started.done /\ started.unreadable)
    => /\ last.op = "__init__"
            => /\ video_queue[M] = <<>>
               /\ processed_videos[M] = started.processed
       /\ \A x \in started.processed : x \notin PathsOf(video_queue[M])
       /\ (last.op = "monitor_once" /\ last.arg = "ok")
            => \A x \in repo \ started.processed : x \in PathsOf(video_queue[M])

\* the queue file was unreadable and held entries, the state file held an
\* identity the repository lists; a discovery cycle has rediscovered the rest
C18_Witness ==
  /\ started.unreadable
  /\ queue_file.readable
  /\ last.op = "monitor_once"
  /\ last.arg = "ok"
  /\ last.ret_count > 0
  /\ repo \cap started.processed # {}
  /\ repo \ started.processed # {}

(***************************************************************************)
(* Runs of AnimationProcessor, one after the other, on the same TEMP_DIR.  *)
(***************************************************************************)
InitSeries == InitMonitor

SeriesOther == UNCHANGED <<simpleVars, fldVars, diskVars, rtVars, runVars, extVars>>

SeriesConstruct == ApConstruct /\ SeriesOther
SeriesProcess == ApSeries /\ SeriesOther
SeriesLoopEnd == ApLoopEnd /\ SeriesOther
SeriesFinally == ApFinally /\ SeriesOther
SeriesNextRun == ApNextRun /\ SeriesOther

NextSeries ==
  \/ SeriesConstruct
  \/ SeriesProcess
  \/ SeriesLoopEnd
  \/ SeriesFinally
  \/ SeriesNextRun

SpecSeries == InitSeries /\ [][NextSeries]_vars

(***************************************************************************)
(* C19: a series that one run of AnimationProcessor.run recorded in        *)
(* completed_series is skipped by the next run, which never enters its     *)
(* processing again: the ledger that run wrote is there when the run has   *)
(* ended and is what the next run loads.                                   *)
(***************************************************************************)
C19_CompletedSeriesSkippedNextRun ==
  /\ \A r \in 1..(MaxRuns - 1) : ap_completed[r] \cap ap_worked[r + 1] = {}
  /\ (ap_pc = "ended" /\ ap_completed[ap_run] # {})
       => /\ progress_file.exists
          /\ \A x \in ap_completed[ap_run] :
               \E i \in 1..Len(ProgressGet(load_progress_file(progress_file),
                                            "completed_series")) :
                 ProgressGet(load_progress_file(progress_file),
                             "completed_series")[i] = x

\* what the code keeps: while a run lasts, the ledger on disk holds every
\* series the run has recorded, and no series is recorded twice in it
C19_LedgerKeptDuringRun ==
  ap_pc \in {"run", "finally"}
    => /\ \A x \in ap_completed[ap_run] :
            \E i \in 1..Len(ProgressGet(load_progress_file(progress_file),
                                         "completed_series")) :
              ProgressGet(load_progress_file(progress_file), "completed_series")[i] = x
       /\ Len(ProgressGet(progress, "completed_series"))
            = Cardinality({ProgressGet(progress, "completed_series")[i] :
                             i \in 1..Len(ProgressGet(progress, "completed_series"))})

\* the first run completed seriesA and ended; the second run found no
\* ledger and processed seriesA again
C19_SeriesProcessedAgain ==
  /\ ap_run = 2
  /\ "seriesA" \in ap_completed[1]
  /\ "seriesA" \in ap_worked[2]
  /\ ~progress_file.exists

(***************************************************************************)
(* run_worker under fair scheduling: the loop is `while True`, every stage *)
(* call returns, and nothing but a KeyboardInterrupt leaves the loop, so a *)
(* step of the loop that can be taken is eventually taken.                 *)
(***************************************************************************)
SpecWorkerLive == InitWorker /\ [][NextWorker]_vars /\ WF_vars(NextWorker)

(***************************************************************************)
(* C20: in run_worker, every entry of the queue is eventually dequeued and *)
(* ends in processed_videos and out of the queue for good, whether its     *)
(* pipeline run succeeded or failed; a run that failed is recorded and the *)
(* loop goes back to taking the next entry.                                *)
(***************************************************************************)
C20_EveryItemProcessed ==
  /\ \A p \in Paths :
       (p \in PathsOf(video_queue["worker"]))
         ~> [](/\ p \in processed_videos["worker"]
               /\ p \notin PathsOf(video_queue["worker"])
               /\ next_video.path # p)
  /\ \A p \in Paths :
       (pc = "returned" /\ ~success /\ next_video.path = p)
         ~> (/\ pc = "loop"
             /\ last_run.path = p
             /\ p \in processed_videos["worker"])
  /\ (pc = "loop" /\ video_queue["worker"] # <<>>) ~> (pc = "download")

\* an entry failed and was recorded; the loop took the next entry, whose
\* run succeeded; both are in processed_videos
C20_Witness ==
  /\ last_run.recorded = "mark_video_failed"
  /\ last_run.path \in processed_videos["worker"]
  /\ pc = "returned"
  /\ success
  /\ next_video.path \in processed_videos["worker"]

(***************************************************************************)
(* The runner: either main() calls run_system, or a caller starts the two  *)
(* loops with start_monitor / start_worker and later calls stop_system.    *)
(***************************************************************************)
InitRunner == InitMonitor

RunnerOther == UNCHANGED <<simpleVars, fldVars, diskVars, rtVars, runVars, apVars, moreVars>>

RunnerStartMonitor == CallStartMonitor /\ RunnerOther
RunnerStartWorker == CallStartWorker /\ RunnerOther
RunnerStop == CallStopSystem /\ RunnerOther
RunnerMonitorWhile == MonitorWhile /\ RunnerOther
RunnerMonitorCycle == MonitorCycle /\ RunnerOther
RunnerMonitorSleepTurn == MonitorSleepTurn /\ RunnerOther
RunnerMonitorWake == MonitorWake /\ RunnerOther
RunnerWorkerWhile == WorkerWhile /\ RunnerOther
RunnerWorkerTake == WorkerTake /\ RunnerOther
RunnerWorkerProcess == WorkerProcess /\ RunnerOther
RunnerWorkerSleepTurn == WorkerSleepTurn /\ RunnerOther
RunnerWorkerWake == WorkerWake /\ RunnerOther
RunnerWorkerCaught == WorkerCaught /\ RunnerOther
RunnerCall == RunSystemCall /\ RunnerOther
RunnerInit == RunSystemInit /\ RunnerOther
RunnerSpawn == RunSystemSpawn /\ RunnerOther
RunnerExcept == RunSystemExcept /\ RunnerOther
RunnerFinally == RunSystemFinally /\ RunnerOther

NextRunner ==
  \/ RunnerStartMonitor
  \/ RunnerStartWorker
  \/ RunnerStop
  \/ RunnerMonitorWhile
  \/ RunnerMonitorCycle
  \/ RunnerMonitorSleepTurn
  \/ RunnerMonitorWake
  \/ RunnerWorkerWhile
  \/ RunnerWorkerTake
  \/ RunnerWorkerProcess
  \/ RunnerWorkerSleepTurn
  \/ RunnerWorkerWake
  \/ RunnerWorkerCaught
  \/ RunnerCall
  \/ RunnerInit
  \/ RunnerSpawn
  \/ RunnerExcept
  \/ RunnerFinally

\* RunSystemStatus is no disjunct: run_system never gets to its status loop
SpecRunner == InitRunner /\ [][NextRunner]_vars

(***************************************************************************)
(* C21: an exception raised inside one iteration of the discovery loop or  *)
(* of the processing loop is caught and logged and the loop keeps running: *)
(* a loop only returns because the running flag was false at its test.     *)
(***************************************************************************)
C21_LoopsSurviveExceptions ==
  /\ mthread.pc = "returned" => mthread.reason = "stopped"
  /\ wthread.pc = "returned" => wthread.reason = "stopped"
  /\ wthread.pc # "caught"

\* what the code keeps: the discovery loop goes on after a cycle that failed
\* inside monitor_once, and the processing loop after an item that failed
C21_ItemFailuresSurvived ==
  /\ mthread.pc = "returned" => mthread.reason = "stopped"
  /\ (wthread.pc = "returned" /\ wthread.reason # "stopped")
       => wthread.reason = "exception"

\* the processing loop has returned on an exception while running is true
C21_WorkerLoopEnded ==
  /\ running
  /\ wthread.pc = "returned"
  /\ wthread.reason = "exception"

(***************************************************************************)
(* C22: when run_system is started in full or no-init mode, the discovery  *)
(* loop and the processing loop are both started, and run_system only      *)
(* leaves its status loop and stops the system after they were.            *)
(***************************************************************************)
C22_BothLoopsStarted ==
  (rs.mode \in {"full", "no-init"} /\ rs.pc \in {"status", "except", "finally", "returned"})
    => /\ mthread.pc # "none"
       /\ wthread.pc # "none"
       /\ rs.error = ""

\* run_system in full mode has returned without a thread having been started
C22_NoLoopStarted ==
  /\ rs.mode = "full"
  /\ rs.pc = "returned"
  /\ rs.error = "AttributeError"
  /\ mthread.pc = "none"
  /\ wthread.pc = "none"
  /\ ~running

(***************************************************************************)
(* C23: once running is false, a loop that was in its sleep between polls  *)
(* leaves the sleep within one sleep(1) step: it finishes at most the      *)
(* sleep(1) it was in, begins no other, and returns without another        *)
(* discovery cycle or dequeue.                                             *)
(***************************************************************************)
C23_SleepLeftWithinOneStep ==
  /\ mthread.at_stop # -1
       => /\ mthread.pc \in {"for", "sleep", "while", "returned"}
          /\ mthread.i <= mthread.at_stop + 1
          /\ mthread.pc = "sleep" => mthread.i = mthread.at_stop
  /\ wthread.at_stop # -1
       => /\ wthread.pc \in {"for", "sleep", "while", "returned"}
          /\ wthread.i <= wthread.at_stop + 1
          /\ wthread.pc = "sleep" => wthread.i = wthread.at_stop

\* running was cleared while the discovery loop was in the third sleep(1) of
\* 300; the loop finished that one and has returned
C23_Witness ==
  /\ mthread.at_stop = 2
  /\ mthread.i = 3
  /\ mthread.pc = "returned"
  /\ mthread.reason = "stopped"

(***************************************************************************)
(* The two processing loops at work: SimpleVideoWorker.run_worker on a     *)
(* video queue loaded at start, and QueueProcessor.run_processor on the    *)
(* folder queue file an earlier run left.                                  *)
(***************************************************************************)
InitInFlight ==
  /\ repo = Paths
  /\ \E f \in LeftFiles :
       /\ Len(f.queue) = 2
       /\ f.processed = {}
       /\ queue_file = [exists |-> TRUE, queue |-> f.queue, readable |-> TRUE]
       /\ state_file = [exists |-> TRUE, processed_videos |-> f.processed]
  /\ processed_videos = [m \in Monitors |-> load_state(state_file)]
  /\ video_queue = [m \in Monitors |-> load_queue(queue_file)]
  /\ last = [op |-> "init", arg |-> "", ret_item |-> None, ret_count |-> 0,
             prev |-> "", prev_arg |-> "", pre_queue |-> <<>>, pre_processed |-> {},
             pre_queue_file |-> [exists |-> FALSE, queue |-> <<>>, readable |-> TRUE]]
  /\ WorkerIdle
  /\ ProcessorStart
  /\ AuxIdle

NextInFlight ==
  \/ RunWorkerDequeue
  \/ RunWorkerDownload
  \/ RunWorkerConvert
  \/ RunWorkerUpload
  \/ RunWorkerMark
  \/ RunWorkerCleanup
  \/ RunWorkerOutcome
  \/ OrderPoll
  \/ OrderCount
  \/ OrderSpace
  \/ OrderMark
  \/ OrderWork

SpecInFlight == InitInFlight /\ [][NextInFlight]_vars

(***************************************************************************)
(* C24: at most one item is in flight.  The processing loop takes the next *)
(* entry only when the run of the previous one has returned and its        *)
(* outcome is recorded, and the folder queue file never shows more than    *)
(* max_concurrent (1) entries in status processing.                        *)
(***************************************************************************)
C24_Step ==
  /\ (Len(video_queue'["worker"]) < Len(video_queue["worker"]) /\ pc' = "download")
       => /\ pc = "loop"
          /\ next_video = None
          /\ calls = <<>>
          /\ next_video' = Head(video_queue["worker"])
  /\ (pc # "loop") => video_queue'["worker"] = video_queue["worker"]
                       \/ pc \in {"mark", "returned"}
  /\ Cardinality({i \in 1..Len(processing_queue_file') :
                    processing_queue_file'[i].status = "processing"}) <= max_concurrent

C24_OneItemInFlight == [][C24_Step]_vars

\* a second video is being converted after the first was recorded, while
\* the processor works on the one folder it marked processing
C24_Witness ==
  /\ pc = "convert"
  /\ last_run.path # ""
  /\ qpc = "work"
  /\ Cardinality({i \in 1..Len(processing_queue_file) :
                    processing_queue_file[i].status = "processing"}) = 1
  /\ \E i \in 1..Len(processing_queue_file) :
       processing_queue_file[i].status \in {"completed", "failed"}

(***************************************************************************)
(* C25: within one pipeline run the stages are invoked in the order        *)
(* download, convert, upload, mark, each only after the stages before it   *)
(* succeeded in this run; the success record (mark_video_processed by      *)
(* process_single_video, return True) is written only after the upload     *)
(* reported success.                                                       *)
(***************************************************************************)
PipelineOrder == <<"download", "convert", "upload", "mark">>

C25_Step ==
  /\ (calls' # calls /\ calls' # <<>>)
       => /\ Len(calls) < Len(PipelineOrder)
          /\ calls' = SubSeq(PipelineOrder, 1, Len(calls) + 1)
          /\ Len(calls) >= 1 => download_result = "ok" /\ local_input_path
          /\ Len(calls) >= 2 => local_output_path
          /\ Len(calls) >= 3 => upload_result = "ok"
  /\ (pc \notin {"loop", "returned"}
        /\ processed_videos'["worker"] # processed_videos["worker"])
       => /\ calls = SubSeq(PipelineOrder, 1, 3)
          /\ upload_result = "ok"
          /\ processed_videos'["worker"] = processed_videos["worker"] \cup {next_video.path}
  /\ (success' /\ ~success)
       => /\ calls' = PipelineOrder
          /\ upload_result = "ok"
          /\ next_video.path \in processed_videos'["worker"]
  /\ last_run'.success => last_run'.calls = PipelineOrder

C25_SuccessOnlyAfterAllStages == [][C25_Step]_vars

\* one run was recorded as a success, and a later run has just had its
\* upload fail and is on its way out without a mark
C25_Witness ==
  /\ last_run.success
  /\ last_run.path \in processed_videos["worker"]
  /\ pc = "finally"
  /\ calls = SubSeq(PipelineOrder, 1, 3)
  /\ upload_result = "failed"
  /\ next_video.path \notin processed_videos["worker"]

(***************************************************************************)
(* C27: the live queue never holds the identity of the item in flight:     *)
(* between get_next_video returning an entry and the recording of its      *)
(* outcome no discovery cycle enqueues that path again.                    *)
(***************************************************************************)
C27_InFlightNotQueued ==
  next_video # None => next_video.path \notin PathsOf(video_queue["system"])

\* what the code keeps: once the outcome is recorded the path is in
\* processed_videos of the monitor that recorded it
C27_RecordedAfterRun ==
  last_run.path # "" =>
    \/ last_run.path \in processed_videos["system"]
    \/ last_run.path \in processed_videos["worker"]

\* the item in flight is back in the live queue while it is being converted
C27_InFlightQueuedAgain ==
  /\ next_video # None
  /\ pc = "convert"
  /\ next_video.path \in PathsOf(video_queue["system"])

(***************************************************************************)
(* monitor_worker and worker_runner as two threads on system.monitor, with *)
(* mark_video_processed taken statement by statement: the list             *)
(* comprehension reads self.video_queue and builds a new list, and the     *)
(* assignment to self.video_queue comes after it; the other thread can run *)
(* in between.                                                             *)
(***************************************************************************)
InitRace ==
  /\ repo = {}
  /\ queue_file = [exists |-> TRUE, queue |-> <<>>, readable |-> TRUE]
  /\ state_file = [exists |-> TRUE, processed_videos |-> {}]
  /\ processed_videos = [m \in Monitors |-> load_state(state_file)]
  /\ video_queue = [m \in Monitors |-> load_queue(queue_file)]
  /\ last = [op |-> "init", arg |-> "", ret_item |-> None, ret_count |-> 0,
             prev |-> "", prev_arg |-> "", pre_queue |-> <<>>, pre_processed |-> {},
             pre_queue_file |-> [exists |-> FALSE, queue |-> <<>>, readable |-> TRUE]]
  /\ WorkerIdle
  /\ FolderIdle
  /\ AuxIdle

RaceOther ==
  UNCHANGED <<repo, last, fldVars, diskVars, rtVars, runVars, apVars, schVars, batchVars>>

\* worker_runner, lines 107-109: process_single_video returned True
RaceOutcomeSuccess ==
  /\ pc = "returned"
  /\ success
  /\ WorkerRunnerRecord
  /\ UNCHANGED raceVars
  /\ RaceOther

\* worker_runner, line 112, into mark_video_processed, lines 273-277:
\* processed_videos.add, original_length, and the list the comprehension
\* builds from the queue as it is now
MarkFilter ==
  /\ pc = "returned"
  /\ ~success
  /\ marking.pc = "idle"
  /\ processed_videos' = [processed_videos EXCEPT !["system"] = @ \cup {next_video.path}]
  /\ marking' = [pc |-> "assign",
                 original_length |-> Len(video_queue["system"]),
                 new_queue |-> SelectSeq(video_queue["system"],
                                         LAMBDA item : item.path # next_video.path)]
  /\ UNCHANGED <<video_queue, state_file, queue_file, wrkVars>>
  /\ RaceOther

\* mark_video_processed, lines 277-283: the assignment of the new list,
\* removed, save_state, save_queue; then worker_runner goes on
MarkAssign ==
  /\ pc = "returned"
  /\ marking.pc = "assign"
  /\ video_queue' = [video_queue EXCEPT !["system"] = marking.new_queue]
  /\ UNCHANGED processed_videos
  /\ state_file' = save_state("system")
  /\ queue_file' = IF marking.original_length - Len(marking.new_queue) > 0
                   THEN save_queue("system") ELSE queue_file
  /\ marking' = NoMarking
  /\ last_run' = RunRecord("mark_video_processed")
  /\ finished' = finished \cup {next_video.path}
  /\ pc' = "loop"
  /\ next_video' = None
  /\ download_result' = ""
  /\ upload_result' = ""
  /\ calls' = <<>>
  /\ success' = FALSE
  /\ temp_files' = {}
  /\ UNCHANGED <<local_input_path, local_output_path>>
  /\ RaceOther

NextRace ==
  \/ SystemRepoUpload
  \/ SystemDiscovery
  \/ SystemDequeue
  \/ SystemDownload
  \/ SystemConvert
  \/ SystemUpload
  \/ SystemMark
  \/ SystemCleanup
  \/ RaceOutcomeSuccess
  \/ MarkFilter
  \/ MarkAssign

SpecRace == InitRace /\ [][NextRace]_vars

(***************************************************************************)
(* C26: an entry that is in the live queue of system.monitor stays there   *)
(* until get_next_video takes it; the only other removal is that of the    *)
(* path whose outcome is being recorded.  No interleaving of discovery     *)
(* with get_next_video, mark_video_processed or mark_video_failed loses an *)
(* enqueued item.                                                          *)
(***************************************************************************)
C26_Step ==
  \A p \in PathsOf(video_queue["system"]) \ PathsOf(video_queue'["system"]) :
    \/ pc = "loop" /\ next_video' # None /\ next_video'.path = p
    \/ next_video # None /\ next_video.path = p /\ p \in processed_videos'["system"]

C26_NoEnqueuedItemLost == [][C26_Step]_vars

\* what the code keeps: every step but the assignment that ends a mark
\* keeps the enqueued items
C26_OtherStepsKeepItems == [][marking.pc = "idle" => C26_Step]_vars

\* discovery has appended an entry for another path between the two
\* statements of mark_video_processed: the list about to be assigned lacks it
C26_AppendedDuringMark ==
  /\ marking.pc = "assign"
  /\ \E p \in PathsOf(video_queue["system"]) \ PathsOf(marking.new_queue) :
       p # next_video.path

(***************************************************************************)
(* C28: a status recorded in the folder queue file is never reverted by a  *)
(* later write of ModelScopeMonitor or QueueProcessor: a folder shown as   *)
(* completed or failed is not shown as pending or processing afterwards,   *)
(* and a folder shown as processing is not shown as pending again.         *)
(***************************************************************************)
FileStatuses(file, f) == {file[i].status : i \in {j \in 1..Len(file) : file[j].folder = f}}

C28_Step ==
  \A f \in Folders :
    /\ FileStatuses(processing_queue_file, f) \cap {"completed", "failed"} # {}
         => FileStatuses(processing_queue_file', f) \cap {"pending", "processing"} = {}
    /\ "processing" \in FileStatuses(processing_queue_file, f)
         => "pending" \notin FileStatuses(processing_queue_file', f)

C28_StatusNeverReverted == [][C28_Step]_vars

\* what the code keeps: the processor's own writes never revert a status
C28_ProcessorKeepsStatus == [][mpc' = mpc /\ mpc # "adding" => C28_Step]_vars

\* the file shows a folder as completed while the monitor, whose memory
\* still has it pending, is about to write the queue
C28_MonitorAboutToRevert ==
  /\ mpc = "adding"
  /\ completed_folders # <<>>
  /\ \E f \in Folders :
       /\ "completed" \in FileStatuses(processing_queue_file, f)
       /\ "pending" \in FileStatuses(processing_queue, f)

(***************************************************************************)
(* QueueProcessor.run_processor started alone on the queue file an earlier *)
(* run left.  Every step of the loop is taken in the end (the sleeps and   *)
(* process_folder return), and check_free_space does not fail forever.     *)
(***************************************************************************)
InitRestart ==
  /\ simpleIdle
  /\ WorkerIdle
  /\ ProcessorStart
  /\ AuxIdle

RestartPoll == ProcessorPoll /\ UNCHANGED <<simpleVars, auxVars>>
RestartCount == ProcessorCount /\ UNCHANGED <<simpleVars, auxVars>>
RestartSpace == ProcessorSpace /\ UNCHANGED <<simpleVars, auxVars>>
RestartMark == ProcessorMark /\ UNCHANGED <<simpleVars, auxVars>>
RestartWork == ProcessorWork /\ UNCHANGED <<simpleVars, auxVars>>

NextRestart ==
  \/ RestartPoll
  \/ RestartCount
  \/ RestartSpace
  \/ RestartMark
  \/ RestartWork

SpecRestart ==
  /\ InitRestart
  /\ [][NextRestart]_vars
  /\ WF_vars(NextRestart)
  /\ SF_vars(RestartSpace /\ qpc' = "mark")

\* an entry is in status processing although the processor is not inside
\* process_folder: an interrupted run left it
StaleProcessing ==
  /\ qpc \in {"poll", "count", "space"}
  /\ \E i \in 1..Len(processing_queue_file) :
       processing_queue_file[i].status = "processing"

(***************************************************************************)
(* C29: a QueueProcessor started on a queue file that holds an entry left  *)
(* in status processing still makes progress: with enough disk space and   *)
(* terminating folder processing, every pending entry is eventually        *)
(* completed or failed.                                                    *)
(***************************************************************************)
C29_PendingEventuallyDone ==
  \A f \in Folders :
    ("pending" \in FileStatuses(processing_queue_file, f))
      ~> (FileStatuses(processing_queue_file, f) \subseteq {"completed", "failed"})

\* what the code keeps: without a stale entry every pending entry is done
C29_FreshQueueDrains ==
  \A f \in Folders :
    ("pending" \in FileStatuses(processing_queue_file, f) /\ ~StaleProcessing)
      ~> (FileStatuses(processing_queue_file, f) \subseteq {"completed", "failed"})

\* the processor has counted the stale entry and gone back to waiting,
\* with a pending entry in the file
C29_WaitingOnStaleEntry ==
  /\ StaleProcessing
  /\ qpc = "count"
  /\ \E i \in 1..Len(processing_queue_file) :
       processing_queue_file[i].status = "pending"

\* a stale entry never leaves status processing
C29_StaleEntryStays == [][StaleProcessing => StaleProcessing' /\ UNCHANGED processing_queue_file]_vars

(***************************************************************************)
(* AnimationProcessor.process_series, one call taken step by step, on a    *)
(* series of MaxVideos videos (a single batch: video_count is at most      *)
(* MAX_EPISODES_PER_BATCH).  all_frames holds the videos whose frames are  *)
(* in the batch.                                                           *)
(***************************************************************************)
MaxVideos == 3

MAX_EPISODES_PER_BATCH == 30

SeriesVideos == [i \in 1..MaxVideos |-> CASE i = 1 -> "ep1" [] i = 2 -> "ep2" [] OTHER -> "ep3"]

\* determine_batch_strategy
determine_batch_strategy(video_count) ==
  IF video_count <= MAX_EPISODES_PER_BATCH
  THEN [is_multi_batch |-> FALSE, total_batches |-> 1, batch_size |-> video_count]
  ELSE [is_multi_batch |-> TRUE,
        total_batches |-> (video_count + MAX_EPISODES_PER_BATCH - 1)
                            \div MAX_EPISODES_PER_BATCH,
        batch_size |-> MAX_EPISODES_PER_BATCH]

InList(list, x) == \E i \in 1..Len(list) : list[i] = x

\* process_video_batch, lines 140-142: processed_videos is created if
\* missing, video_key appended
mark_video_key_processed(data, video_key) ==
  [k \in DOMAIN data \cup {"processed_videos"} |->
     IF k = "processed_videos"
     THEN Append(ProgressGet(data, "processed_videos"), video_key)
     ELSE data[k]]

\* the ledgers an earlier run can have left in memory after load_progress
LeftProgress ==
  LET none == <<>>
      one == mark_video_key_processed(none, SeriesVideos[1])
      all == mark_video_key_processed(
               mark_video_key_processed(one, SeriesVideos[2]), SeriesVideos[3])
  IN {none, one, all, mark_series_completed(all, SeriesOrder[1])}

InitBatch ==
  /\ simpleIdle
  /\ WorkerIdle
  /\ FolderIdle
  /\ DiskIdle
  /\ RtIdle
  /\ RunIdle
  /\ SchIdle
  /\ RaceIdle
  /\ ap_pc = "run"
  /\ ap_run = 1
  /\ ap_index = 1
  /\ ap_completed = [r \in 1..MaxRuns |-> {}]
  /\ ap_worked = [r \in 1..MaxRuns |-> {}]
  /\ progress \in LeftProgress
  /\ progress_file = IF progress = <<>> THEN NoProgressFile
                     ELSE [exists |-> TRUE, text |-> save_progress(progress)]
  /\ ps = [NoCall EXCEPT !.pc = "call"]

BatchOther ==
  UNCHANGED <<simpleVars, fldVars, diskVars, rtVars, runVars, schVars, raceVars,
              ap_pc, ap_run, ap_index, ap_completed, ap_worked>>

\* process_series, lines 209-227: the early return for a completed series,
\* the strategy, the temporary directory (an OSError is caught at line 315)
SeriesCall ==
  /\ ps.pc = "call"
  /\ IF InList(ProgressGet(progress, "completed_series"), SeriesOrder[1])
     THEN ps' = [ps EXCEPT !.pc = "returned", !.result = "True"]
     ELSE /\ ~determine_batch_strategy(Len(SeriesVideos)).is_multi_batch
          /\ \E makedirs_ok \in BOOLEAN :
               IF makedirs_ok
               THEN ps' = [ps EXCEPT !.pc = "video", !.i = 1]
               ELSE ps' = [ps EXCEPT !.pc = "returned", !.result = "False"]
  /\ UNCHANGED <<progress, progress_file>>
  /\ BatchOther

\* how the body of the loop of process_video_batch ends for one video
VideoOutcomes == {"download_failed", "no_frames", "frames", "no_images", "exception"}

\* process_video_batch, lines 102-163: one turn of the loop
BatchVideo ==
  /\ ps.pc = "video"
  /\ ps.i <= Len(SeriesVideos)
  /\ LET video_key == SeriesVideos[ps.i]
         next == IF ps.i = Len(SeriesVideos) THEN "archive" ELSE "video"
     IN IF InList(ProgressGet(progress, "processed_videos"), video_key)
        THEN \* lines 108-110: already processed, continue
             /\ ps' = [ps EXCEPT !.i = @ + 1, !.pc = next]
             /\ UNCHANGED <<progress, progress_file>>
        ELSE \E outcome \in VideoOutcomes, enough_space \in BOOLEAN :
               /\ IF outcome \in {"frames", "no_images"}
                  THEN /\ progress' = mark_video_key_processed(progress, video_key)
                       /\ progress_file' = [exists |-> TRUE,
                                            text |-> save_progress(progress')]
                  ELSE UNCHANGED <<progress, progress_file>>
               /\ ps' = [ps EXCEPT
                           !.all_frames = IF outcome = "frames"
                                          THEN @ \cup {video_key} ELSE @,
                           !.i = @ + 1,
                           !.pc = IF outcome \in {"download_failed", "exception"}
                                  THEN next
                                  ELSE IF enough_space THEN next ELSE "archive"]
  /\ BatchOther

\* process_series, lines 285-302: the archive of a batch that has frames
SeriesArchive ==
  /\ ps.pc = "archive"
  /\ IF ps.all_frames # {}
     THEN \E outcome \in {"verified", "unverified", "failed"} :
            ps' = [ps EXCEPT !.archive = outcome,
                             !.pc = IF outcome = "verified" THEN "record" ELSE "returned",
                             !.result = IF outcome = "verified" THEN "" ELSE "False"]
     ELSE ps' = [ps EXCEPT !.pc = "record"]
  /\ UNCHANGED <<progress, progress_file>>
  /\ BatchOther

\* process_series, lines 306-313: the series is recorded as completed
SeriesRecord ==
  /\ ps.pc = "record"
  /\ progress' = mark_series_completed(progress, SeriesOrder[1])
  /\ progress_file' = [exists |-> TRUE, text |-> save_progress(progress')]
  /\ ps' = [ps EXCEPT !.pc = "returned", !.result = "True"]
  /\ BatchOther

NextBatch ==
  \/ SeriesCall
  \/ BatchVideo
  \/ SeriesArchive
  \/ SeriesRecord

SpecBatch == InitBatch /\ [][NextBatch]_vars

(***************************************************************************)
(* C30: process_series records a series in completed_series only when it   *)
(* is really finished: every video of the series is in processed_videos    *)
(* and every batch that produced frames has a verified archive; a series   *)
(* cut short by low disk space, failed downloads or missing frames is not  *)
(* recorded.                                                               *)
(***************************************************************************)
C30_CompletedOnlyWhenFinished ==
  InList(ProgressGet(progress, "completed_series"), SeriesOrder[1])
    => /\ \A i \in 1..Len(SeriesVideos) :
            InList(ProgressGet(progress, "processed_videos"), SeriesVideos[i])
       /\ ps.all_frames # {} => ps.archive = "verified"

\* what the code keeps: a batch that produced frames is archived and the
\* archive verified before the series is recorded, and the ledger file
\* holds what the memory holds
C30_ArchiveBeforeRecord ==
  /\ (ps.result = "True" /\ ps.all_frames # {}) => ps.archive = "verified"
  /\ ps.pc = "returned" /\ ps.result = "True"
       => InList(ProgressGet(load_progress_file(progress_file), "completed_series"),
                 SeriesOrder[1])

\* the series was recorded although the batch loop was left before the last
\* video and a video is in none of the lists
C30_CutShortButCompleted ==
  /\ ps.pc = "returned"
  /\ ps.result = "True"
  /\ InList(ProgressGet(progress, "completed_series"), SeriesOrder[1])
  /\ ps.i <= Len(SeriesVideos)
  /\ ~InList(ProgressGet(progress, "processed_videos"), SeriesVideos[Len(SeriesVideos)])

====
